---- MODULE Spec2Model ----
(***************************************************************************)
(* Model of the SQL generator of risingwave-pipelines: the connector       *)
(* registry, the postgres and iceberg connectors (validation and           *)
(* rendering) and generate_sql, run step by step over one job config.      *)
(*                                                                         *)
(* A Python string is a non-empty sequence of dot-free segments: the text  *)
(* "public.orders" is <<"public", "orders">> and the empty string is       *)
(* <<"">>, so that str.split(".") is the sequence itself.  A Python dict   *)
(* is a sequence of entries [k, v] in insertion order with distinct keys;  *)
(* a key is a string, hence a sequence of segments.                        *)
(***************************************************************************)
EXTENDS Integers, Sequences, FiniteSets, TLC

(***************************************************************************)
(* Python values                                                           *)
(***************************************************************************)
PStr(segs) == [t |-> "str", s |-> segs]
PInt(n) == [t |-> "int", n |-> n]
PBool(b) == [t |-> "bool", b |-> b]
PDict(entries) == [t |-> "dict", d |-> entries]
\* None, and the jinja2 Undefined an absent attribute evaluates to
PNone == [t |-> "none"]
Undefined == [t |-> "undefined"]

S1(x) == PStr(<<x>>)
E(key, val) == [k |-> <<key>>, v |-> val]

IsDict(v) == v.t = "dict"
IsStr(v) == v.t = "str"
\* isinstance(v, int): bool is a subclass of int
IsInt(v) == v.t \in {"int", "bool"}

Keys(d) == [i \in 1..Len(d) |-> d[i].k]
Has(d, key) == \E i \in 1..Len(d) : d[i].k = key
Get(d, key) == d[CHOOSE i \in 1..Len(d) : d[i].k = key].v
\* d[key] = val: an existing key keeps its position, a new key goes last
Put(d, key, val) ==
    IF Has(d, key)
    THEN [i \in 1..Len(d) |-> IF d[i].k = key THEN [k |-> key, v |-> val] ELSE d[i]]
    ELSE Append(d, [k |-> key, v |-> val])

RECURSIVE JoinWith(_, _)
JoinWith(seq, sep) ==
    IF Len(seq) = 0 THEN ""
    ELSE IF Len(seq) = 1 THEN seq[1]
    ELSE seq[1] \o sep \o JoinWith(Tail(seq), sep)

\* the text of a string from its segments
Text(segs) == JoinWith(segs, ".")

Last(seq) == seq[Len(seq)]
\* split(".")[:1] for split(".")[:-1]: only the first segment
FrontFirstOnly(seq) == SubSeq(seq, 1, 1)

Front(seq) == SubSeq(seq, 1, Len(seq) - 1)

RECURSIVE PyRepr(_)
PyRepr(v) ==
    CASE v.t = "str" -> "'" \o Text(v.s) \o "'"
      [] v.t = "int" -> ToString(v.n)
      [] v.t = "bool" -> (IF v.b THEN "True" ELSE "False")
      [] v.t = "none" -> "None"
      [] v.t = "undefined" -> ""
      [] v.t = "dict" ->
            "{" \o JoinWith([i \in 1..Len(v.d) |->
                    "'" \o Text(v.d[i].k) \o "': " \o PyRepr(v.d[i].v)], ", ") \o "}"

\* str(v), which is also how jinja2 prints {{ v }}
PyStr(v) == IF v.t = "str" THEN Text(v.s) ELSE PyRepr(v)

\* truth value of a Python object
Truthy(v) ==
    CASE v.t = "str" -> Text(v.s) # ""
      [] v.t = "int" -> v.n # 0
      [] v.t = "bool" -> v.b
      [] v.t = "dict" -> Len(v.d) > 0
      [] v.t \in {"none", "undefined"} -> FALSE

(***************************************************************************)
(* Errors: a raised exception is its class, the fixed text of its message  *)
(* and the values the message interpolates.                                *)
(***************************************************************************)
NoError == [exc |-> "none", what |-> "", arg |-> "", supported |-> <<>>]
ValueError(what, arg) == [exc |-> "ValueError", what |-> what, arg |-> arg, supported |-> <<>>]
AttributeError(cls, attr) ==
    [exc |-> "AttributeError", what |-> "object has no attribute", arg |-> attr, supported |-> <<>>]
KeyError(key) == [exc |-> "KeyError", what |-> "", arg |-> key, supported |-> <<>>]
UndefinedError(attr) ==
    [exc |-> "UndefinedError", what |-> "is undefined", arg |-> attr, supported |-> <<>>]
TypeError(what) == [exc |-> "TypeError", what |-> what, arg |-> "", supported |-> <<>>]

\* index of the first field of `fields` that is no key of d (0: d has them all)
FirstMissing(d, fields) ==
    IF \A i \in 1..Len(fields) : Has(d, <<fields[i]>>) THEN 0
    ELSE CHOOSE i \in 1..Len(fields) :
            /\ ~Has(d, <<fields[i]>>)
            /\ \A j \in 1..(i - 1) : Has(d, <<fields[j]>>)

(***************************************************************************)
(* A rendered statement: the slots its template fills.  props are the      *)
(* lines of the WITH clause, key and value as printed.                     *)
(***************************************************************************)
Prop(key, val) == [k |-> key, v |-> val]
Quoted(text) == "'" \o text \o "'"
Statement(kind, name, from, upstream, props) ==
    [kind |-> kind, name |-> name, from |-> from, upstream |-> upstream, props |-> props]

\* jinja2 `obj.attr`: the item of a mapping, Undefined otherwise
JAttr(obj, attr) ==
    IF obj.t = "dict" /\ Has(obj.d, <<attr>>) THEN Get(obj.d, <<attr>>) ELSE Undefined

\* dict.get(key, default) on a mapping
DGet(obj, key, default) ==
    IF Has(obj.d, <<key>>) THEN Get(obj.d, <<key>>) ELSE default

(***************************************************************************)
(* connectors/postgres.py                                                  *)
(***************************************************************************)
PG_REQUIRED_FIELDS == <<"connector", "hostname", "port", "username", "password", "database">>

\* lines 146-148 done unconditionally: a mapping is wrapped once more
PGNormalizeAlways(config) ==
    Put(config, <<"database">>, PDict(<<E("name", Get(config, <<"database">>))>>))

\* lines 146-148 left out: a scalar database stays a scalar
PGNormalizeNever(config) == config

\* lines 143-148, the branch that does not raise
PGNormalizeDatabase(config) ==
    IF IsDict(Get(config, <<"database">>)) THEN config
    ELSE Put(config, <<"database">>, PDict(<<E("name", Get(config, <<"database">>))>>))

\* lines 150-185: the first violated rule of the optional blocks
PGCheckOptional(config) ==
    LET slot == Get(config, <<"slot">>)
        pub == Get(config, <<"publication">>)
        schema == Get(config, <<"schema">>)
        table == Get(config, <<"table">>)
    IN  IF Has(config, <<"slot">>) /\ ~IsDict(slot)
        THEN ValueError("Slot configuration must be a dictionary", "")
        ELSE IF Has(config, <<"slot">>) /\ ~Has(slot.d, <<"name">>)
        THEN ValueError("Missing required slot.name field when slot is specified", "")
        ELSE IF Has(config, <<"publication">>) /\ ~IsDict(pub)
        THEN ValueError("Publication configuration must be a dictionary", "")
        ELSE IF /\ Has(config, <<"publication">>)
                /\ Has(pub.d, <<"name">>)
                /\ ~IsStr(Get(pub.d, <<"name">>))
        THEN ValueError("Publication name must be a string", "")
        ELSE IF /\ Has(config, <<"publication">>)
                /\ Has(pub.d, <<"create">>)
                /\ ~IsDict(Get(pub.d, <<"create">>))
        THEN ValueError("Publication create configuration must be a dictionary", "")
        ELSE IF /\ Has(config, <<"publication">>)
                /\ Has(pub.d, <<"create">>)
                /\ ~Has(Get(pub.d, <<"create">>).d, <<"enable">>)
        THEN ValueError("Missing required publication.create.enable field when publication.create is specified", "")
        ELSE IF Has(config, <<"schema">>) /\ ~IsDict(schema)
        THEN ValueError("Schema configuration must be a dictionary", "")
        ELSE IF Has(config, <<"schema">>) /\ ~Has(schema.d, <<"name">>)
        THEN ValueError("Missing required schema.name field when schema is specified", "")
        ELSE IF ~(IsInt(Get(config, <<"port">>)) \/ IsStr(Get(config, <<"port">>)))
        THEN ValueError("Port must be an integer or string", "")
        ELSE IF Has(config, <<"table">>) /\ ~(IsStr(table) \/ IsDict(table))
        THEN TypeError("argument is not iterable")
        ELSE IF /\ Has(config, <<"table">>)
                /\ IF IsStr(table) THEN Len(table.s) = 1 ELSE ~Has(table.d, <<"", "">>)
        THEN ValueError("Table name should be in format 'schema.table'", "")
        ELSE NoError

\* validate_config: the error raised (NoError: none) and the config as the call leaves it
PostgreSQLValidateConfig(config) ==
    LET m == FirstMissing(config, PG_REQUIRED_FIELDS)
        db == Get(config, <<"database">>)
    IN  IF m # 0
        THEN [err |-> ValueError("Missing required PostgreSQL source field", PG_REQUIRED_FIELDS[m]),
              config |-> config]
        ELSE IF IsDict(db) /\ ~Has(db.d, <<"name">>)
        THEN [err |-> ValueError("Database configuration must have a 'name' field", ""),
              config |-> config]
        ELSE [err |-> PGCheckOptional(PGNormalizeDatabase(config)),
              config |-> PGNormalizeDatabase(config)]

\* `postgres_{{ source.database.name }}_source`
PGSourceName(source) ==
    "postgres_" \o PyStr(JAttr(JAttr(PDict(source), "database"), "name")) \o "_source"

\* one optional clause of PG_SOURCE_TEMPLATE: printed when the looked-up value is true
PGOptionalClause(key, val) ==
    IF Truthy(val) THEN <<Prop(key, Quoted(PyStr(val)))>> ELSE <<>>

\* create_source / PG_SOURCE_TEMPLATE
PostgreSQLCreateSource(source) ==
    LET src == PDict(source)
        slot == DGet(src, "slot", PDict(<<>>))
        pub == DGet(src, "publication", PDict(<<>>))
        schema == DGet(src, "schema", PDict(<<>>))
    IN  Statement("CREATE SOURCE", PGSourceName(source), "", "",
            <<Prop("connector", "'postgres-cdc'"),
              Prop("hostname", Quoted(PyStr(JAttr(src, "hostname")))),
              Prop("port", Quoted(PyStr(JAttr(src, "port")))),
              Prop("username", Quoted(PyStr(JAttr(src, "username")))),
              Prop("password", Quoted(PyStr(JAttr(src, "password")))),
              Prop("database.name", Quoted(PyStr(JAttr(JAttr(src, "database"), "name"))))>>
            \o PGOptionalClause("slot.name", DGet(slot, "name", PNone))
            \o PGOptionalClause("publication.name", DGet(pub, "name", PNone))
            \o PGOptionalClause("publication.create.enable",
                    DGet(DGet(pub, "create", PDict(<<>>)), "enable", PNone))
            \o PGOptionalClause("schema.name", DGet(schema, "name", PNone)))

\* PG_TABLE_TEMPLATE naming the table by the whole source_table
PostgreSQLCreateTableQualified(source, route) ==
    Statement("CREATE TABLE", Text(Get(route, <<"source_table">>).s), PGSourceName(source),
              Quoted(PyStr(Get(route, <<"source_table">>))), <<>>)

\* create_table / PG_TABLE_TEMPLATE
PostgreSQLCreateTable(source, route) ==
    Statement("CREATE TABLE", Last(Get(route, <<"source_table">>).s), PGSourceName(source),
              Quoted(PyStr(Get(route, <<"source_table">>))), <<>>)

(***************************************************************************)
(* connectors/iceberg.py                                                   *)
(***************************************************************************)
\* self.valid_connection_props
valid_connection_props == {"catalog", "s3", "gcs", "azblob", "warehouse"}

\* flatten_dict / flatten_dict_to_map: the leaves of d, depth first, keys joined by "."
RECURSIVE Flatten(_, _)
Flatten(d, parent_key) ==
    IF Len(d) = 0 THEN <<>>
    ELSE LET new_key == parent_key \o d[1].k
         IN  (IF IsDict(d[1].v) THEN Flatten(d[1].v.d, new_key)
              ELSE <<[k |-> new_key, v |-> d[1].v]>>)
             \o Flatten(Tail(d), parent_key)

\* the assignments target_map[key] = value, applied in order
RECURSIVE PutAll(_, _)
PutAll(target_map, entries) ==
    IF Len(entries) = 0 THEN target_map
    ELSE PutAll(Put(target_map, entries[1].k, entries[1].v), Tail(entries))

\* process_config without lines 183-184: nested mappings are not flattened
ProcessConfigScalarsOnly(config, target_map) ==
    PutAll(target_map, Flatten(SelectSeq(config, LAMBDA e : ~IsDict(e.v)), <<>>))

\* process_config(config, target_map)
ProcessConfig(config, target_map) == PutAll(target_map, Flatten(config, <<>>))

\* quote_if_string of create_connection (lines 113-116)
ConnQuoteIfString(v) == IF IsStr(v) THEN Quoted(Text(v.s)) ELSE PyStr(v)

\* quote_if_string of create_sink (lines 164-169)
SinkQuoteIfString(v) ==
    IF IsStr(v) THEN Quoted(Text(v.s))
    ELSE IF v.t = "bool" THEN (IF v.b THEN "'true'" ELSE "'false'")
    ELSE PyStr(v)

\* create_connection / ICEBERG_CONNECTION_TEMPLATE
IcebergCreateConnection(sink_config, connection_name) ==
    LET IsConn(e) == Len(e.k) = 1 /\ e.k[1] \in valid_connection_props
        leaves == Flatten(SelectSeq(sink_config, IsConn), <<>>)
    IN  Statement("CREATE CONNECTION", connection_name, "", "",
            <<Prop("type", "'iceberg'")>>
            \o [i \in 1..Len(leaves) |-> Prop(Text(leaves[i].k), ConnQuoteIfString(leaves[i].v))])

\* the keys the sink template prints itself (lines 199-206)
SINK_TEMPLATE_KEYS ==
    {<<"connector">>, <<"database", "name">>, <<"table", "name">>,
     <<"source_table">>, <<"sink_table">>, <<"connection">>}

\* lines 190-191 swapped: the sink properties are written over the route's
IcebergMergePropsSinkLast(sink_config, route) ==
    ProcessConfig(sink_config, ProcessConfig(route, <<>>))

\* lines 188-191: sink properties first, route properties written over them
IcebergMergeProps(sink_config, route) ==
    ProcessConfig(route, ProcessConfig(sink_config, <<>>))

\* create_sink without the test of line 208: the connection properties are kept
IcebergCreateSinkKeepsConnectionProps(source_config, sink_config, route, connection_name) ==
    LET flattened_props == IcebergMergeProps(sink_config, route)
        IsProp(e) == e.k \notin SINK_TEMPLATE_KEYS
        kept == SelectSeq(flattened_props, IsProp)
        sink_table == Get(route, <<"sink_table">>).s
        source_table == Get(route, <<"source_table">>).s
    IN  Statement("CREATE SINK", Last(sink_table) \o "_sink", Last(source_table), "",
            <<Prop("connector", "'iceberg'"),
              Prop("database.name", Quoted(Text(Front(sink_table)))),
              Prop("table.name", Quoted(Last(sink_table)))>>
            \o (IF Truthy(connection_name)
                THEN <<Prop("connection", PyStr(connection_name))>> ELSE <<>>)
            \o [i \in 1..Len(kept) |-> Prop(Text(kept[i].k), SinkQuoteIfString(kept[i].v))])

\* create_sink / ICEBERG_SINK_TEMPLATE
IcebergCreateSink(source_config, sink_config, route, connection_name) ==
    LET flattened_props == IcebergMergeProps(sink_config, route)
        IsProp(e) == ~(e.k \in SINK_TEMPLATE_KEYS \/ e.k[1] \in valid_connection_props)
        kept == SelectSeq(flattened_props, IsProp)
        sink_table == Get(route, <<"sink_table">>).s
        source_table == Get(route, <<"source_table">>).s
    IN  Statement("CREATE SINK", Last(sink_table) \o "_sink", Last(source_table), "",
            <<Prop("connector", "'iceberg'"),
              Prop("database.name", Quoted(Text(Front(sink_table)))),
              Prop("table.name", Quoted(Last(sink_table)))>>
            \o (IF Truthy(connection_name)
                THEN <<Prop("connection", PyStr(connection_name))>> ELSE <<>>)
            \o [i \in 1..Len(kept) |-> Prop(Text(kept[i].k), SinkQuoteIfString(kept[i].v))])

\* "if key in d": the block must be a mapping that has every field of `fields`
BlockError(d, key, label, fields) ==
    IF ~Has(d, <<key>>) THEN NoError
    ELSE IF ~IsDict(Get(d, <<key>>))
    THEN ValueError(label \o " configuration must be a dictionary", "")
    ELSE IF FirstMissing(Get(d, <<key>>).d, fields) # 0
    THEN ValueError("Missing required " \o label \o " field",
                    fields[FirstMissing(Get(d, <<key>>).d, fields)])
    ELSE NoError

\* the first error of a sequence of check results, in order
FirstError(errs) ==
    IF \A i \in 1..Len(errs) : errs[i] = NoError THEN NoError
    ELSE errs[CHOOSE i \in 1..Len(errs) :
                errs[i] # NoError /\ \A j \in 1..(i - 1) : errs[j] = NoError]

ICEBERG_REQUIRED_FIELDS == <<"connector", "catalog">>
ICEBERG_FORBIDDEN_FIELDS == <<<<"database">>, <<"database", "name">>>>

\* lines 244-250 with the loop body never reached
IcebergForbiddenNone(config) == NoError

\* lines 244-250: the first forbidden field present
IcebergForbidden(config) ==
    IF \A i \in 1..Len(ICEBERG_FORBIDDEN_FIELDS) : ~Has(config, ICEBERG_FORBIDDEN_FIELDS[i])
    THEN NoError
    ELSE LET i == CHOOSE i \in 1..Len(ICEBERG_FORBIDDEN_FIELDS) :
                    /\ Has(config, ICEBERG_FORBIDDEN_FIELDS[i])
                    /\ \A j \in 1..(i - 1) : ~Has(config, ICEBERG_FORBIDDEN_FIELDS[j])
         IN  ValueError("Field should not be specified in Iceberg sink config",
                        Text(ICEBERG_FORBIDDEN_FIELDS[i]))

\* lines 257-267 with the warehouse block looked up under catalog
IcebergNoStorageNested(config) ==
    LET catalog == Get(config, <<"catalog">>).d
    IN  /\ ~(Has(catalog, <<"rest">>) \/ Has(catalog, <<"jdbc">>))
        /\ ~(Has(config, <<"s3">>) \/ Has(config, <<"gcs">>) \/ Has(config, <<"azblob">>))
        /\ ~Has(catalog, <<"warehouse">>)

\* lines 257-267: no catalog.rest/jdbc, no root s3/gcs/azblob and no root warehouse
IcebergNoStorage(config) ==
    LET catalog == Get(config, <<"catalog">>).d
    IN  /\ ~(Has(catalog, <<"rest">>) \/ Has(catalog, <<"jdbc">>))
        /\ ~(Has(config, <<"s3">>) \/ Has(config, <<"gcs">>) \/ Has(config, <<"azblob">>))
        /\ ~Has(config, <<"warehouse">>)

\* lines 269-332 with the s3 block checked only when it is the one storage configuration
IcebergCheckBlocksS3Alone(config) ==
    LET catalog == Get(config, <<"catalog">>).d
    IN  FirstError(<<
            BlockError(config, "warehouse", "Warehouse", <<"path">>),
            IF Has(config, <<"warehouse">>) \/ Has(catalog, <<"rest">>) \/ Has(catalog, <<"jdbc">>)
            THEN NoError
            ELSE BlockError(config, "s3", "S3", <<"endpoint", "region", "access", "secret">>),
            BlockError(config, "gcs", "GCS", <<"credential">>),
            BlockError(config, "azblob", "Azure Blob",
                       <<"account_name", "account_key", "endpoint_url">>),
            BlockError(catalog, "rest", "REST", <<"credential", "token">>),
            BlockError(catalog, "jdbc", "JDBC", <<"user", "password">>),
            IF /\ Has(config, <<"commit_checkpoint_interval">>)
               /\ ~IsInt(Get(config, <<"commit_checkpoint_interval">>))
            THEN ValueError("commit_checkpoint_interval must be a number", "") ELSE NoError,
            IF /\ Has(config, <<"commit_retry_num">>)
               /\ ~IsInt(Get(config, <<"commit_retry_num">>))
            THEN ValueError("commit_retry_num must be an integer", "") ELSE NoError,
            IF /\ Has(config, <<"create_table_if_not_exists">>)
               /\ ~IsStr(Get(config, <<"create_table_if_not_exists">>))
            THEN ValueError("create_table_if_not_exists must be a string", "") ELSE NoError
        >>)

\* lines 269-332: the blocks and options that are present
IcebergCheckBlocks(config) ==
    LET catalog == Get(config, <<"catalog">>).d
    IN  FirstError(<<
            BlockError(config, "warehouse", "Warehouse", <<"path">>),
            BlockError(config, "s3", "S3", <<"endpoint", "region", "access", "secret">>),
            BlockError(config, "gcs", "GCS", <<"credential">>),
            BlockError(config, "azblob", "Azure Blob",
                       <<"account_name", "account_key", "endpoint_url">>),
            BlockError(catalog, "rest", "REST", <<"credential", "token">>),
            BlockError(catalog, "jdbc", "JDBC", <<"user", "password">>),
            IF /\ Has(config, <<"commit_checkpoint_interval">>)
               /\ ~IsInt(Get(config, <<"commit_checkpoint_interval">>))
            THEN ValueError("commit_checkpoint_interval must be a number", "") ELSE NoError,
            IF /\ Has(config, <<"commit_retry_num">>)
               /\ ~IsInt(Get(config, <<"commit_retry_num">>))
            THEN ValueError("commit_retry_num must be an integer", "") ELSE NoError,
            IF /\ Has(config, <<"create_table_if_not_exists">>)
               /\ ~IsStr(Get(config, <<"create_table_if_not_exists">>))
            THEN ValueError("create_table_if_not_exists must be a string", "") ELSE NoError
        >>)

\* validate_config: the error raised (NoError: none) and the config as the call leaves it
IcebergValidateConfig(config) ==
    LET m == FirstMissing(config, ICEBERG_REQUIRED_FIELDS)
        err ==
            IF m # 0
            THEN ValueError("Missing required Iceberg sink field", ICEBERG_REQUIRED_FIELDS[m])
            ELSE IF IcebergForbidden(config) # NoError THEN IcebergForbidden(config)
            ELSE IF ~IsDict(Get(config, <<"catalog">>))
            THEN ValueError("Catalog configuration must be a dictionary", "")
            ELSE IF IcebergNoStorage(config)
            THEN ValueError("Missing required configuration: either warehouse path, storage configuration (s3, gcs, azblob), or catalog configuration (rest, jdbc)", "")
            ELSE IcebergCheckBlocks(config)
    IN  [err |-> err, config |-> config]

(***************************************************************************)
(* generator.py                                                            *)
(***************************************************************************)
\* the rendered text of a statement (the four jinja2 templates)
StatementText(stmt) ==
    LET props == JoinWith([i \in 1..Len(stmt.props) |->
                            stmt.props[i].k \o " = " \o stmt.props[i].v], ",\n    ")
    IN  CASE stmt.kind = "CREATE SOURCE" ->
                "\nCREATE SOURCE " \o stmt.name \o "\nWITH (\n    " \o props
                \o "\n)\nFORMAT PLAIN ENCODE JSON;"
          [] stmt.kind = "CREATE TABLE" ->
                "\nCREATE TABLE " \o stmt.name \o " (*)\nFROM " \o stmt.from
                \o "\nTABLE " \o stmt.upstream \o ";"
          [] stmt.kind = "CREATE CONNECTION" ->
                "\nCREATE CONNECTION " \o stmt.name \o "\nWITH (\n    " \o props \o "\n);"
          [] stmt.kind = "CREATE SINK" ->
                "\nCREATE SINK " \o stmt.name \o "\nFROM " \o stmt.from
                \o "\nWITH (\n    " \o props \o "\n);"

\* the connector classes and what each defines
SupportsConnection(cls) == cls = "IcebergConnector"
HasMethod(cls, method) ==
    IF cls = "PostgreSQLConnector"
    THEN method \in {"validate_config", "create_source", "create_table"}
    ELSE method \in {"validate_config", "create_connection", "create_sink"}

ValidateConfig(cls, config) ==
    IF cls = "PostgreSQLConnector" THEN PostgreSQLValidateConfig(config)
    ELSE IcebergValidateConfig(config)

\* validate_route that looks at source_table alone
ValidateRouteSourceOnly(route) ==
    IF ~Has(route, <<"source_table">>) THEN ValueError("Route must contain 'source_table'", "")
    ELSE NoError

\* validate_route (lines 71-74)
ValidateRoute(route) ==
    IF ~Has(route, <<"source_table">>) THEN ValueError("Route must contain 'source_table'", "")
    ELSE IF ~Has(route, <<"sink_table">>) THEN ValueError("Route must contain 'sink_table'", "")
    ELSE NoError

VARIABLES
    CONNECTOR_REGISTRY, \* connector type -> class, in insertion order
    config,             \* the caller's job config object: source, sink, route
    pc,                 \* position of the running generate_sql call
    source_connector,   \* class of the source connector instance ("" before line 107)
    sink_connector,     \* class of the sink connector instance ("" before line 110)
    idx,                \* index of the route the current loop is at
    sql_statements,     \* the statements rendered so far, in order
    result,             \* how the call ended
    given,              \* the config as the running call received it
    history             \* the results of the earlier calls on this config object

\* main.py: one run of the command line tool
VARIABLES
    main_pc,            \* position of main ("idle": the generator is used as a library)
    args,               \* the parsed command line: --submit, and whether host, port, database, user are all given
    sql,                \* main's local sql, the text generate_sql returned
    statements,         \* submit_sql: the list sql.split(";") the loop runs over
    stmt_idx,           \* submit_sql: index of the loop in that list
    executed,           \* the statements the database has executed (autocommit: each one is final)
    stderr,             \* the lines written to the error stream
    exit_status,        \* exit status of the process (-1 while it runs)
    submit_calls        \* number of calls of submit_sql

cli_vars == <<main_pc, args, sql, statements, stmt_idx, executed, stderr, exit_status,
              submit_calls>>

\* two threads calling generate_sql
VARIABLES
    objects,            \* the job config objects the threads were given
    threads             \* per thread: its config object, position and locals

conc_vars == <<objects, threads>>

vars == <<CONNECTOR_REGISTRY, config, pc, source_connector, sink_connector, idx,
          sql_statements, result, given, history, cli_vars, conc_vars>>

NoResult == [status |-> "running", err |-> NoError, text |-> ""]
Returned(text) == [status |-> "returned", err |-> NoError, text |-> text]
Raised(err) == [status |-> "raised", err |-> err, text |-> ""]

\* routes = config.get("route", [])
routes == IF config.route.has THEN config.route.list ELSE <<>>
source == config.source
sink == config.sink

\* the loops visit the routes last to first
RouteAtReversed(i) == routes[Len(routes) + 1 - i]

\* `for route in routes`: the route of the i-th turn
RouteAt(i) == routes[i]

RegistryKeys == [i \in 1..Len(CONNECTOR_REGISTRY) |-> CONNECTOR_REGISTRY[i].k]
InRegistry(connector_type) == \E i \in 1..Len(CONNECTOR_REGISTRY) : CONNECTOR_REGISTRY[i].k = connector_type
RegistryClass(connector_type) ==
    CONNECTOR_REGISTRY[CHOOSE i \in 1..Len(CONNECTOR_REGISTRY) : CONNECTOR_REGISTRY[i].k = connector_type].v

\* lines 51-55 without the list of supported types
UnsupportedWithoutList(connector_type) ==
    [exc |-> "ValueError", what |-> "Unsupported connector type", arg |-> connector_type,
     supported |-> <<>>]

\* the error of get_connector_instance (lines 51-55)
Unsupported(connector_type) ==
    [exc |-> "ValueError", what |-> "Unsupported connector type", arg |-> connector_type,
     supported |-> RegistryKeys]

\* an exception leaves generate_sql: nothing is returned
Raise(err) ==
    /\ pc' = "raised"
    /\ result' = Raised(err)

\* lines 101-102
CheckSourceConnector ==
    /\ pc = "check_source_connector"
    /\ IF ~Has(source, <<"connector">>)
       THEN Raise(ValueError("Source configuration must include a 'connector' field", ""))
       ELSE pc' = "check_sink_connector" /\ UNCHANGED result
    /\ UNCHANGED <<CONNECTOR_REGISTRY, config, source_connector, sink_connector, idx,
                   sql_statements, given, history, cli_vars, conc_vars>>

\* lines 103-104
CheckSinkConnector ==
    /\ pc = "check_sink_connector"
    /\ IF ~Has(sink, <<"connector">>)
       THEN Raise(ValueError("Sink configuration must include a 'connector' field", ""))
       ELSE pc' = "resolve_source" /\ UNCHANGED result
    /\ UNCHANGED <<CONNECTOR_REGISTRY, config, source_connector, sink_connector, idx,
                   sql_statements, given, history, cli_vars, conc_vars>>

\* lines 107-110 with the sink's connector looked up before the source's
ResolveSourceAfterSink ==
    /\ pc = "resolve_source"
    /\ LET connector_type == PyStr(Get(source, <<"connector">>))
           sink_type == PyStr(Get(sink, <<"connector">>))
       IN  IF ~InRegistry(sink_type)
           THEN Raise(Unsupported(sink_type)) /\ UNCHANGED source_connector
           ELSE IF ~InRegistry(connector_type)
           THEN Raise(Unsupported(connector_type)) /\ UNCHANGED source_connector
           ELSE /\ source_connector' = RegistryClass(connector_type)
                /\ pc' = "resolve_sink"
                /\ UNCHANGED result
    /\ UNCHANGED <<CONNECTOR_REGISTRY, config, sink_connector, idx, sql_statements, given, history, cli_vars, conc_vars>>

\* lines 107-109: get_connector_instance(source["connector"], ...)
ResolveSource ==
    /\ pc = "resolve_source"
    /\ LET connector_type == PyStr(Get(source, <<"connector">>))
       IN  IF ~InRegistry(connector_type)
           THEN Raise(Unsupported(connector_type)) /\ UNCHANGED source_connector
           ELSE /\ source_connector' = RegistryClass(connector_type)
                /\ pc' = "resolve_sink"
                /\ UNCHANGED result
    /\ UNCHANGED <<CONNECTOR_REGISTRY, config, sink_connector, idx, sql_statements, given, history, cli_vars, conc_vars>>

\* line 110: get_connector_instance(sink["connector"], ...)
ResolveSink ==
    /\ pc = "resolve_sink"
    /\ LET connector_type == PyStr(Get(sink, <<"connector">>))
       IN  IF ~InRegistry(connector_type)
           THEN Raise(Unsupported(connector_type)) /\ UNCHANGED sink_connector
           ELSE /\ sink_connector' = RegistryClass(connector_type)
                /\ pc' = "validate_source"
                /\ UNCHANGED result
    /\ UNCHANGED <<CONNECTOR_REGISTRY, config, source_connector, idx, sql_statements, given, history, cli_vars, conc_vars>>

\* line 113: source_connector.validate_config(source), which may rewrite source in place
ValidateSource ==
    /\ pc = "validate_source"
    /\ LET r == ValidateConfig(source_connector, source)
       IN  /\ config' = [config EXCEPT !.source = r.config]
           /\ IF r.err # NoError THEN Raise(r.err)
              ELSE pc' = "validate_sink" /\ UNCHANGED result
    /\ UNCHANGED <<CONNECTOR_REGISTRY, source_connector, sink_connector, idx, sql_statements,
                   given, history, cli_vars, conc_vars>>

\* line 114: sink_connector.validate_config(sink)
ValidateSink ==
    /\ pc = "validate_sink"
    /\ LET r == ValidateConfig(sink_connector, sink)
       IN  /\ config' = [config EXCEPT !.sink = r.config]
           /\ IF r.err # NoError THEN Raise(r.err)
              ELSE pc' = "check_routes" /\ UNCHANGED result
    /\ UNCHANGED <<CONNECTOR_REGISTRY, source_connector, sink_connector, idx, sql_statements,
                   given, history, cli_vars, conc_vars>>

\* lines 117-118
CheckRoutes ==
    /\ pc = "check_routes"
    /\ IF Len(routes) = 0
       THEN Raise(ValueError("Route configuration is required", "")) /\ UNCHANGED idx
       ELSE pc' = "validate_routes" /\ idx' = 1 /\ UNCHANGED result
    /\ UNCHANGED <<CONNECTOR_REGISTRY, config, source_connector, sink_connector,
                   sql_statements, given, history, cli_vars, conc_vars>>

\* lines 121-122 with the loop left after its first turn
ValidateRoutesFirstOnly ==
    /\ pc = "validate_routes"
    /\ LET err == ValidateRoute(RouteAt(idx))
       IN  IF err # NoError THEN Raise(err) /\ UNCHANGED <<idx, sql_statements>>
           ELSE /\ pc' = "source_connection"
                /\ idx' = 1
                /\ sql_statements' = <<>>
                /\ UNCHANGED result
    /\ UNCHANGED <<CONNECTOR_REGISTRY, config, source_connector, sink_connector, given, history, cli_vars, conc_vars>>

\* lines 121-122: one turn of the loop; line 125 once the loop is over
ValidateRoutes ==
    /\ pc = "validate_routes"
    /\ LET err == ValidateRoute(RouteAt(idx))
       IN  IF err # NoError THEN Raise(err) /\ UNCHANGED <<idx, sql_statements>>
           ELSE IF idx < Len(routes)
           THEN idx' = idx + 1 /\ UNCHANGED <<pc, result, sql_statements>>
           ELSE /\ pc' = "source_connection"
                /\ idx' = 1
                /\ sql_statements' = <<>>
                /\ UNCHANGED result
    /\ UNCHANGED <<CONNECTOR_REGISTRY, config, source_connector, sink_connector, given, history, cli_vars, conc_vars>>

\* lines 128-132
SourceConnection ==
    /\ pc = "source_connection"
    /\ IF SupportsConnection(source_connector)
       THEN sql_statements' = Append(sql_statements,
                IcebergCreateConnection(source,
                    PyStr(Get(source, <<"connector">>)) \o "_connection"))
       ELSE UNCHANGED sql_statements
    /\ pc' = "create_source"
    /\ UNCHANGED <<CONNECTOR_REGISTRY, config, source_connector, sink_connector, idx, result,
                   given, history, cli_vars, conc_vars>>

\* lines 135-136
CreateSource ==
    /\ pc = "create_source"
    /\ IF ~HasMethod(source_connector, "create_source")
       THEN /\ Raise(AttributeError(source_connector, "create_source"))
            /\ UNCHANGED sql_statements
       ELSE /\ sql_statements' = Append(sql_statements, PostgreSQLCreateSource(source))
            /\ pc' = "create_tables"
            /\ UNCHANGED result
    /\ UNCHANGED <<CONNECTOR_REGISTRY, config, source_connector, sink_connector, idx, given, history, cli_vars, conc_vars>>

\* lines 139-143 with the loop left after its first turn
CreateTablesFirstOnly ==
    /\ pc = "create_tables"
    /\ sql_statements' = Append(sql_statements, PostgreSQLCreateTable(source, RouteAt(idx)))
    /\ idx' = 1
    /\ pc' = "sink_connection"
    /\ UNCHANGED <<CONNECTOR_REGISTRY, config, source_connector, sink_connector, result, given,
                   history, cli_vars, conc_vars>>

\* lines 139-143: one turn of the loop
CreateTables ==
    /\ pc = "create_tables"
    /\ IF HasMethod(source_connector, "create_table") /\ ~Has(RouteAt(idx), <<"source_table">>)
       THEN \* `route.source_table.split` on an absent key
            /\ Raise(UndefinedError("source_table"))
            /\ UNCHANGED <<sql_statements, idx>>
       ELSE /\ IF HasMethod(source_connector, "create_table")
               THEN sql_statements' =
                        Append(sql_statements, PostgreSQLCreateTable(source, RouteAt(idx)))
               ELSE UNCHANGED sql_statements
            /\ IF idx < Len(routes) THEN idx' = idx + 1 /\ UNCHANGED pc
               ELSE idx' = 1 /\ pc' = "sink_connection"
            /\ UNCHANGED result
    /\ UNCHANGED <<CONNECTOR_REGISTRY, config, source_connector, sink_connector, given,
                   history, cli_vars, conc_vars>>

\* lines 146-150
SinkConnection ==
    /\ pc = "sink_connection"
    /\ IF SupportsConnection(sink_connector)
       THEN sql_statements' = Append(sql_statements,
                IcebergCreateConnection(sink, PyStr(Get(sink, <<"connector">>)) \o "_connection"))
       ELSE UNCHANGED sql_statements
    /\ pc' = "create_sinks"
    /\ UNCHANGED <<CONNECTOR_REGISTRY, config, source_connector, sink_connector, idx, result,
                   given, history, cli_vars, conc_vars>>

\* lines 156-157: the copy of sink that carries the connection name
SinkWithConn ==
    LET connector == Get(sink, <<"connector">>).s
    IN  Put(sink, <<"connection_name">>,
            PStr(Front(connector) \o <<Last(connector) \o "_connection">>))

\* lines 153-163: one turn of the loop
CreateSinks ==
    /\ pc = "create_sinks"
    /\ IF ~HasMethod(sink_connector, "create_sink")
       THEN /\ Raise(AttributeError(sink_connector, "create_sink"))
            /\ UNCHANGED <<sql_statements, idx>>
       ELSE IF ~Has(RouteAt(idx), <<"sink_table">>) \/ ~Has(RouteAt(idx), <<"source_table">>)
       THEN \* route["sink_table"], route["source_table"] on an absent key
            /\ Raise(KeyError(IF Has(RouteAt(idx), <<"sink_table">>)
                              THEN "source_table" ELSE "sink_table"))
            /\ UNCHANGED <<sql_statements, idx>>
       ELSE /\ sql_statements' = Append(sql_statements,
                    IcebergCreateSink(source,
                        IF SupportsConnection(sink_connector) THEN SinkWithConn ELSE sink,
                        RouteAt(idx), PNone))
            /\ IF idx < Len(routes) THEN idx' = idx + 1 /\ UNCHANGED pc
               ELSE idx' = 1 /\ pc' = "return"
            /\ UNCHANGED result
    /\ UNCHANGED <<CONNECTOR_REGISTRY, config, source_connector, sink_connector, given, history, cli_vars, conc_vars>>

\* line 166
Return ==
    /\ pc = "return"
    /\ result' = Returned(JoinWith([i \in 1..Len(sql_statements) |->
                                        StatementText(sql_statements[i])], "\n"))
    /\ pc' = "returned"
    /\ UNCHANGED <<CONNECTOR_REGISTRY, config, source_connector, sink_connector, idx,
                   sql_statements, given, history, cli_vars, conc_vars>>

(***************************************************************************)
(* The job configs generate_sql is run on                                  *)
(***************************************************************************)
MaxRoutes == 2
MaxCalls == 2

PgBase ==
    <<E("connector", S1("postgres")), E("hostname", S1("h")), E("port", PInt(5432)),
      E("username", S1("u")), E("password", S1("p"))>>
PgDatabaseDict == PgBase \o <<E("database", PDict(<<E("name", S1("db1"))>>))>>
PgDatabaseScalar == PgBase \o <<E("database", S1("db1"))>>

IcebergBase == <<E("connector", S1("iceberg")), E("catalog", PDict(<<E("type", S1("storage"))>>))>>
IcebergWarehouse ==
    IcebergBase \o <<E("warehouse", PDict(<<E("path", S1("s3://bucket"))>>))>>
IcebergRest ==
    <<E("connector", S1("iceberg")),
      E("catalog", PDict(<<E("rest", PDict(<<E("credential", S1("c")), E("token", S1("t"))>>))>>)),
      E("type", S1("upsert")),
      E("commit_checkpoint_interval", PInt(60)),
      E("opt", PDict(<<E("x", PInt(1)), E("y", PBool(TRUE))>>))>>
\* the sink of Scenario A: the warehouse block nested under catalog
IcebergScenarioA ==
    <<E("connector", S1("iceberg")),
      E("catalog", PDict(<<E("warehouse", PDict(<<E("path", S1("s3://bucket"))>>))>>))>>

\* the same sink with the warehouse block at the root
IcebergScenarioARoot ==
    <<E("connector", S1("iceberg")), E("catalog", PDict(<<>>)),
      E("warehouse", PDict(<<E("path", S1("s3://bucket"))>>))>>

ValidSources == {PgDatabaseDict, PgDatabaseScalar}
Sources ==
    ValidSources \cup
    { PgBase,                                             \* no database
      Tail(PgDatabaseDict),                               \* no connector
      Put(PgDatabaseDict, <<"connector">>, S1("mysql")),
      PgBase \o <<E("database", PDict(<<>>))>>,           \* database without name
      PgDatabaseScalar \o <<E("slot", PDict(<<>>))>>,     \* slot without name
      IcebergWarehouse }                                  \* a sink variant as source

ValidSinks == {IcebergWarehouse, IcebergRest, IcebergScenarioARoot}
Sinks ==
    ValidSinks \cup
    { IcebergScenarioA,
      Tail(IcebergWarehouse),                             \* no connector
      Put(IcebergWarehouse, <<"connector">>, S1("kafka")),
      IcebergWarehouse \o <<E("database", S1("lake"))>>,
      IcebergWarehouse \o <<[k |-> <<"database", "name">>, v |-> S1("lake")]>>,
      <<E("connector", S1("iceberg")), E("warehouse", PDict(<<E("path", S1("w"))>>))>>,
      PgDatabaseScalar }                                  \* a source variant as sink

RouteOrders ==
    <<E("source_table", PStr(<<"public", "orders">>)), E("sink_table", PStr(<<"lake", "orders">>))>>
RouteUsers ==
    <<E("source_table", PStr(<<"public", "users">>)),
      E("sink_table", PStr(<<"db", "lake", "users">>)),
      E("primary_key", S1("id")),
      E("type", S1("append-only")),
      [k |-> <<"opt", "x">>, v |-> PInt(2)]>>
Routes ==
    { RouteOrders, RouteUsers,
      <<E("source_table", PStr(<<"public", "orders">>))>>,     \* no sink_table
      <<E("sink_table", PStr(<<"lake", "orders">>))>>,         \* no source_table
      Put(RouteOrders, <<"source_table">>, S1("")),
      Put(RouteOrders, <<"sink_table">>, S1("")) }

SeqsUpTo(set, n) == UNION {[1..m -> set] : m \in 0..n}
RouteLists ==
    {[has |-> FALSE, list |-> <<>>]} \cup {[has |-> TRUE, list |-> l] : l \in SeqsUpTo(Routes, MaxRoutes)}

\* sources with the optional blocks, and one with a ";" and a "'" in a value
PgOptionalBlocks(enable) ==
    PgDatabaseDict \o
    <<E("slot", PDict(<<E("name", S1("s1"))>>)),
      E("publication", PDict(<<E("name", S1("pub")),
                               E("create", PDict(<<E("enable", PBool(enable))>>))>>)),
      E("schema", PDict(<<E("name", S1("public"))>>))>>
PgSemicolon == Put(PgDatabaseDict, <<"password">>, S1("p;q'r"))
ExtraSources == {PgOptionalBlocks(TRUE), PgOptionalBlocks(FALSE), PgSemicolon}

\* sinks with a rest catalog that has oauth2 fields and a boolean, with an s3
\* block (whole, or lacking one field), and with a dotted key at the top level
IcebergRestOauth ==
    <<E("connector", S1("iceberg")),
      E("catalog", PDict(<<E("rest", PDict(<<E("credential", S1("c")), E("token", S1("t")),
                                             E("oauth2_server_uri", S1("https://auth")),
                                             E("scope", S1("catalog"))>>)),
                           E("ssl", PBool(TRUE))>>)),
      E("commit_retry_num", PInt(3))>>
S3Block ==
    <<E("endpoint", S1("http://s3")), E("region", S1("eu")),
      E("access", PDict(<<E("key", S1("ak"))>>)), E("secret", PDict(<<E("key", S1("sk"))>>))>>
S3Without(field) == SelectSeq(S3Block, LAMBDA e : e.k # <<field>>)
IcebergS3(block) == IcebergBase \o <<E("s3", PDict(block))>>
S3Sinks ==
    {IcebergS3(S3Block)}
    \cup {IcebergS3(S3Without(f)) : f \in {"endpoint", "region", "access", "secret"}}
    \cup {IcebergWarehouse \o <<E("s3", PDict(S3Without("secret")))>>,
          IcebergRest \o <<E("s3", PDict(S3Without("region")))>>,
          IcebergWarehouse \o <<E("s3", PDict(S3Block))>>}
IcebergDottedKey == IcebergWarehouse \o <<[k |-> <<"s3", "region">>, v |-> S1("eu")]>>
ExtraSinks == {IcebergRestOauth, IcebergDottedKey} \cup S3Sinks

\* a route whose source_table ends like that of RouteOrders
RouteSalesOrders ==
    <<E("source_table", PStr(<<"sales", "orders">>)), E("sink_table", PStr(<<"archive", "orders">>))>>
ExtraRouteLists ==
    {[has |-> TRUE, list |-> l] :
        l \in {<<RouteOrders>>, <<RouteOrders, RouteUsers>>, <<RouteOrders, RouteSalesOrders>>}}

ExtraJobs ==
    {[source |-> s, sink |-> k, route |-> r] :
        s \in ExtraSources, k \in {IcebergWarehouse, IcebergRestOauth}, r \in ExtraRouteLists}
    \cup {[source |-> s, sink |-> k, route |-> r] :
        s \in ValidSources, k \in ExtraSinks \cup {IcebergRest}, r \in ExtraRouteLists}

Jobs ==
    {[source |-> s, sink |-> k, route |-> r] : s \in Sources, k \in Sinks, r \in RouteLists}
    \cup ExtraJobs

\* the command line tool is not run
CliIdle ==
    /\ main_pc = "idle"
    /\ args = [submit |-> FALSE, complete |-> FALSE]
    /\ sql = ""
    /\ statements = <<>>
    /\ stmt_idx = 1
    /\ executed = <<>>
    /\ stderr = <<>>
    /\ exit_status = -1
    /\ submit_calls = 0

\* no threads
ConcIdle ==
    /\ objects = <<>>
    /\ threads = <<>>

Init ==
    /\ CONNECTOR_REGISTRY =
            <<[k |-> "postgres", v |-> "PostgreSQLConnector"],
              [k |-> "iceberg", v |-> "IcebergConnector"]>>
    /\ config \in Jobs
    /\ pc = "check_source_connector"
    /\ source_connector = ""
    /\ sink_connector = ""
    /\ idx = 1
    /\ sql_statements = <<>>
    /\ result = NoResult
    /\ given = config
    /\ history = <<>>
    /\ CliIdle
    /\ ConcIdle

\* the caller calls generate_sql again, on the config object the last call left
Invoke ==
    /\ pc \in {"returned", "raised"}
    /\ Len(history) + 1 < MaxCalls
    /\ history' = Append(history, [result |-> result, given |-> given])
    /\ given' = config
    /\ pc' = "check_source_connector"
    /\ source_connector' = ""
    /\ sink_connector' = ""
    /\ idx' = 1
    /\ sql_statements' = <<>>
    /\ result' = NoResult
    /\ UNCHANGED <<CONNECTOR_REGISTRY, config, cli_vars, conc_vars>>

Next ==
    \/ CheckSourceConnector
    \/ CheckSinkConnector
    \/ ResolveSource
    \/ ResolveSink
    \/ ValidateSource
    \/ ValidateSink
    \/ CheckRoutes
    \/ ValidateRoutes
    \/ SourceConnection
    \/ CreateSource
    \/ CreateTables
    \/ SinkConnection
    \/ CreateSinks
    \/ Return
    \/ Invoke

Spec == Init /\ [][Next]_vars

(***************************************************************************)
(* main.py: the command line tool.  What it writes to standard output is   *)
(* left out; the error stream is the sequence of the lines written to it.  *)
(* The database either executes a statement or fails it (psycopg2.Error).  *)
(***************************************************************************)
gen_vars == <<CONNECTOR_REGISTRY, config, pc, source_connector, sink_connector, idx,
              sql_statements, result, given, history>>

\* str.split(sep) for a separator of one character
Split(text, sep) ==
    LET at == {i \in 1..Len(text) : SubSeq(text, i, i) = sep}
        n == Cardinality(at)
        nth(k) == CHOOSE p \in at : Cardinality({q \in at : q < p}) = k - 1
    IN  [k \in 1..(n + 1) |->
            SubSeq(text, IF k = 1 THEN 1 ELSE nth(k - 1) + 1,
                         IF k = n + 1 THEN Len(text) ELSE nth(k) - 1)]

\* `not statement.strip()`: only whitespace
IsBlank(text) == \A i \in 1..Len(text) : SubSeq(text, i, i) \in {" ", "\n", "\t", "\r", "\f"}

\* the text of an exception, str(e) after the name of its class
ErrorLine(err) ==
    err.exc \o ": " \o err.what \o (IF err.arg = "" THEN "" ELSE ": " \o err.arg)

\* what the interpreter writes when an exception leaves main (the frames
\* inside generate_sql left out); the process then ends with status 1
Traceback(err) ==
    <<"Traceback (most recent call last):",
      "  File main.py, in main",
      "    sql = generate_sql(job_config)",
      ErrorLine(err)>>

\* print(..., file=sys.stderr); sys.exit(1)
Die(lines) ==
    /\ stderr' = stderr \o lines
    /\ exit_status' = 1
    /\ main_pc' = "exited"

\* lines 179-190: the job file is read; a file that is missing or is not YAML ends the run
MainParse ==
    /\ main_pc = "parse"
    /\ \E ok \in BOOLEAN :
            IF ok THEN main_pc' = "generate" /\ UNCHANGED <<stderr, exit_status>>
            ELSE Die(<<"Error: the job file cannot be read">>)
    /\ UNCHANGED <<args, sql, statements, stmt_idx, executed, submit_calls>>
    /\ UNCHANGED <<gen_vars, conc_vars>>

\* line 193: sql = generate_sql(job_config), the call
MainGenerate ==
    /\ main_pc = "generate"
    /\ main_pc' = "in_generate"
    /\ pc' = "check_source_connector"
    /\ UNCHANGED <<CONNECTOR_REGISTRY, config, source_connector, sink_connector, idx,
                   sql_statements, result, given, history>>
    /\ UNCHANGED <<args, sql, statements, stmt_idx, executed, stderr, exit_status, submit_calls>>
    /\ UNCHANGED conc_vars

\* line 193 when generate_sql raises: no try block is around the call
MainUncaught ==
    /\ main_pc = "in_generate"
    /\ pc = "raised"
    /\ Die(Traceback(result.err))
    /\ UNCHANGED <<args, sql, statements, stmt_idx, executed, submit_calls>>
    /\ UNCHANGED <<gen_vars, conc_vars>>

\* lines 193-208: generate_sql returned; with --submit the connection
\* parameters are checked and submit_sql is called
MainGenerated ==
    /\ main_pc = "in_generate"
    /\ pc = "returned"
    /\ sql' = result.text
    /\ IF ~args.submit
       THEN main_pc' = "print" /\ UNCHANGED <<stderr, exit_status, submit_calls>>
       ELSE IF ~args.complete
       THEN /\ Die(<<"Error: Missing required parameters for RisingWave connection">>)
            /\ UNCHANGED submit_calls
       ELSE /\ main_pc' = "connect"
            /\ submit_calls' = submit_calls + 1
            /\ UNCHANGED <<stderr, exit_status>>
    /\ UNCHANGED <<args, statements, stmt_idx, executed>>
    /\ UNCHANGED <<gen_vars, conc_vars>>

\* lines 210-214: the statements are printed and main ends
MainPrint ==
    /\ main_pc = "print"
    /\ main_pc' = "exited"
    /\ exit_status' = 0
    /\ UNCHANGED <<args, sql, statements, stmt_idx, executed, stderr, submit_calls>>
    /\ UNCHANGED <<gen_vars, conc_vars>>

\* submit_sql, lines 104-114: connect, autocommit, the list of the loop
SubmitConnect ==
    /\ main_pc = "connect"
    /\ \E ok \in BOOLEAN :
            IF ok
            THEN /\ statements' = Split(sql, ";")
                 /\ stmt_idx' = 1
                 /\ main_pc' = "execute"
                 /\ UNCHANGED <<stderr, exit_status>>
            ELSE /\ Die(<<"", "Error connecting to RisingWave: connection refused">>)
                 /\ UNCHANGED <<statements, stmt_idx>>
    /\ UNCHANGED <<args, sql, executed, submit_calls>>
    /\ UNCHANGED <<gen_vars, conc_vars>>

\* lines 114-121 with the error of a statement reported and the loop going on
SubmitExecuteGoesOn ==
    /\ main_pc = "execute"
    /\ stmt_idx <= Len(statements)
    /\ IF IsBlank(statements[stmt_idx])
       THEN UNCHANGED <<executed, stderr>>
       ELSE \E ok \in BOOLEAN :
                IF ok
                THEN executed' = Append(executed, statements[stmt_idx]) /\ UNCHANGED stderr
                ELSE /\ stderr' = stderr \o <<"", "Error connecting to RisingWave: statement failed">>
                     /\ UNCHANGED executed
    /\ stmt_idx' = stmt_idx + 1
    /\ UNCHANGED <<args, sql, statements, submit_calls, main_pc, exit_status>>
    /\ UNCHANGED <<gen_vars, conc_vars>>

\* submit_sql, lines 114-121 and 141-143: one turn of the loop; a statement
\* the database fails ends the process
SubmitExecute ==
    /\ main_pc = "execute"
    /\ stmt_idx <= Len(statements)
    /\ IF IsBlank(statements[stmt_idx])
       THEN /\ stmt_idx' = stmt_idx + 1
            /\ UNCHANGED <<executed, stderr, exit_status, main_pc>>
       ELSE \E ok \in BOOLEAN :
                IF ok
                THEN /\ executed' = Append(executed, statements[stmt_idx])
                     /\ stmt_idx' = stmt_idx + 1
                     /\ UNCHANGED <<stderr, exit_status, main_pc>>
                ELSE /\ Die(<<"", "Error connecting to RisingWave: statement failed">>)
                     /\ UNCHANGED <<executed, stmt_idx>>
    /\ UNCHANGED <<args, sql, statements, submit_calls>>
    /\ UNCHANGED <<gen_vars, conc_vars>>

\* submit_sql, lines 138-139, and the end of main
SubmitClose ==
    /\ main_pc = "execute"
    /\ stmt_idx > Len(statements)
    /\ main_pc' = "exited"
    /\ exit_status' = 0
    /\ UNCHANGED <<args, sql, statements, stmt_idx, executed, stderr, submit_calls>>
    /\ UNCHANGED <<gen_vars, conc_vars>>

\* the job files the tool is run on, and its command lines
CliJobs ==
    {[source |-> s, sink |-> k, route |-> r] :
        s \in {PgDatabaseDict, PgDatabaseScalar, PgBase, Put(PgDatabaseDict, <<"connector">>, S1("mysql"))},
        k \in {IcebergWarehouse, IcebergRest, IcebergScenarioA, PgDatabaseScalar},
        r \in {[has |-> FALSE, list |-> <<>>],
               [has |-> TRUE, list |-> <<RouteOrders>>],
               [has |-> TRUE, list |-> <<RouteOrders, RouteUsers>>],
               [has |-> TRUE, list |-> <<<<E("source_table", PStr(<<"public", "orders">>))>>>>]}}
CliArgs ==
    {[submit |-> FALSE, complete |-> FALSE], [submit |-> TRUE, complete |-> FALSE],
     [submit |-> TRUE, complete |-> TRUE]}

CliInit ==
    /\ CONNECTOR_REGISTRY =
            <<[k |-> "postgres", v |-> "PostgreSQLConnector"],
              [k |-> "iceberg", v |-> "IcebergConnector"]>>
    /\ config \in CliJobs
    /\ pc = "not_called"
    /\ source_connector = ""
    /\ sink_connector = ""
    /\ idx = 1
    /\ sql_statements = <<>>
    /\ result = NoResult
    /\ given = config
    /\ history = <<>>
    /\ main_pc = "parse"
    /\ args \in CliArgs
    /\ sql = ""
    /\ statements = <<>>
    /\ stmt_idx = 1
    /\ executed = <<>>
    /\ stderr = <<>>
    /\ exit_status = -1
    /\ submit_calls = 0
    /\ ConcIdle

CliNext ==
    \/ MainParse
    \/ MainGenerate
    \/ CheckSourceConnector
    \/ CheckSinkConnector
    \/ ResolveSource
    \/ ResolveSink
    \/ ValidateSource
    \/ ValidateSink
    \/ CheckRoutes
    \/ ValidateRoutes
    \/ SourceConnection
    \/ CreateSource
    \/ CreateTables
    \/ SinkConnection
    \/ CreateSinks
    \/ Return
    \/ MainUncaught
    \/ MainGenerated
    \/ MainPrint
    \/ SubmitConnect
    \/ SubmitExecute
    \/ SubmitClose

CliSpec == CliInit /\ [][CliNext]_vars

(***************************************************************************)
(* generate_sql called from two threads.  The interpreter may switch       *)
(* threads between any two steps below; a step reads or writes the config  *)
(* object at most once where the other thread may write it (the database   *)
(* entry of the source), everything else is local to the thread.  The      *)
(* threads are given jobs from a postgres source to an iceberg sink.       *)
(***************************************************************************)
Threads == {1, 2}

\* the config object thread t was given, and parts of it
Object(t) == objects[threads[t].obj]
TRoutes(t) == IF Object(t).route.has THEN Object(t).route.list ELSE <<>>

\* thread t moves to `label` with the fields of `changes` rewritten
TStep(t, changes) ==
    threads' = [threads EXCEPT ![t] =
                    [f \in DOMAIN threads[t] |->
                        IF f \in DOMAIN changes THEN changes[f] ELSE threads[t][f]]]

TRaise(t, err) == TStep(t, [pc |-> "raised", result |-> Raised(err)])

\* generator.py lines 96-110 and postgres.py lines 137-140: the connector
\* fields, the two instances and the required fields of the source
TBegin(t) ==
    /\ threads[t].pc = "begin"
    /\ LET m == FirstMissing(Object(t).source, PG_REQUIRED_FIELDS)
       IN  IF m # 0
           THEN TRaise(t, ValueError("Missing required PostgreSQL source field",
                                     PG_REQUIRED_FIELDS[m]))
           ELSE TStep(t, [pc |-> "test_database"])
    /\ UNCHANGED <<objects, gen_vars, cli_vars>>

\* postgres.py line 143: isinstance(config["database"], dict)
TTestDatabase(t) ==
    /\ threads[t].pc = "test_database"
    /\ TStep(t, [pc |-> IF IsDict(Get(Object(t).source, <<"database">>))
                        THEN "check_name" ELSE "read_database"])
    /\ UNCHANGED <<objects, gen_vars, cli_vars>>

\* postgres.py lines 144-145: "name" not in config["database"]
TCheckName(t) ==
    /\ threads[t].pc = "check_name"
    /\ LET db == Get(Object(t).source, <<"database">>)
       IN  IF IsDict(db) /\ ~Has(db.d, <<"name">>)
           THEN TRaise(t, ValueError("Database configuration must have a 'name' field", ""))
           ELSE TStep(t, [pc |-> "validate_rest"])
    /\ UNCHANGED <<objects, gen_vars, cli_vars>>

\* postgres.py line 148, the right-hand side: {"name": config["database"]}
TReadDatabase(t) ==
    /\ threads[t].pc = "read_database"
    /\ TStep(t, [pc |-> "write_database",
                 tmp |-> PDict(<<E("name", Get(Object(t).source, <<"database">>))>>)])
    /\ UNCHANGED <<objects, gen_vars, cli_vars>>

\* postgres.py line 148, the assignment to config["database"]
TWriteDatabase(t) ==
    /\ threads[t].pc = "write_database"
    /\ objects' = [objects EXCEPT ![threads[t].obj].source =
                        Put(@, <<"database">>, threads[t].tmp)]
    /\ TStep(t, [pc |-> "validate_rest"])
    /\ UNCHANGED <<gen_vars, cli_vars>>

\* postgres.py lines 150-185 and generator.py lines 114-125: the optional
\* blocks of the source, the sink config, the routes
TValidateRest(t) ==
    /\ threads[t].pc = "validate_rest"
    /\ LET rts == TRoutes(t)
           bad == {i \in 1..Len(rts) : ValidateRoute(rts[i]) # NoError}
           err == IF PGCheckOptional(Object(t).source) # NoError
                  THEN PGCheckOptional(Object(t).source)
                  ELSE IF IcebergValidateConfig(Object(t).sink).err # NoError
                  THEN IcebergValidateConfig(Object(t).sink).err
                  ELSE IF Len(rts) = 0
                  THEN ValueError("Route configuration is required", "")
                  ELSE IF bad # {}
                  THEN ValidateRoute(rts[CHOOSE i \in bad : \A j \in bad : i <= j])
                  ELSE NoError
       IN  IF err # NoError THEN TRaise(t, err)
           ELSE TStep(t, [pc |-> "render", idx |-> 1, sql_statements |-> <<>>])
    /\ UNCHANGED <<objects, gen_vars, cli_vars>>

\* generator.py lines 135-163: the next statement, rendered from the config
\* object as it is now: source, tables, sink connection, sinks
TRender(t) ==
    /\ threads[t].pc = "render"
    /\ LET n == Len(TRoutes(t))
           k == threads[t].idx
           src == Object(t).source
           snk == Object(t).sink
           connector == Get(snk, <<"connector">>).s
           with_conn == Put(snk, <<"connection_name">>,
                            PStr(Front(connector) \o <<Last(connector) \o "_connection">>))
           stmt == IF k = 1 THEN PostgreSQLCreateSource(src)
                   ELSE IF k <= n + 1 THEN PostgreSQLCreateTable(src, TRoutes(t)[k - 1])
                   ELSE IF k = n + 2
                   THEN IcebergCreateConnection(snk, PyStr(Get(snk, <<"connector">>)) \o "_connection")
                   ELSE IcebergCreateSink(src, with_conn, TRoutes(t)[k - n - 2], PNone)
       IN  TStep(t, [sql_statements |-> Append(threads[t].sql_statements, stmt),
                     idx |-> k + 1,
                     pc |-> IF k = 2 * n + 2 THEN "return" ELSE "render"])
    /\ UNCHANGED <<objects, gen_vars, cli_vars>>

\* generator.py line 166
TReturn(t) ==
    /\ threads[t].pc = "return"
    /\ TStep(t, [pc |-> "returned",
                 result |-> Returned(JoinWith(
                     [i \in 1..Len(threads[t].sql_statements) |->
                         StatementText(threads[t].sql_statements[i])], "\n"))])
    /\ UNCHANGED <<objects, gen_vars, cli_vars>>

\* the jobs the threads are given
ConcJobs ==
    {[source |-> s, sink |-> k, route |-> r] :
        s \in {PgDatabaseDict, PgDatabaseScalar, PgBase,
               PgBase \o <<E("database", PDict(<<>>))>>,
               PgDatabaseScalar \o <<E("slot", PDict(<<>>))>>},
        k \in {IcebergWarehouse, IcebergRest, IcebergScenarioA},
        r \in {[has |-> FALSE, list |-> <<>>],
               [has |-> TRUE, list |-> <<RouteOrders>>],
               [has |-> TRUE, list |-> <<RouteOrders, RouteUsers>>],
               [has |-> TRUE, list |-> <<RouteOrders, <<E("sink_table", PStr(<<"lake", "orders">>))>>>>]}}

NewThread(o, job) ==
    [obj |-> o, pc |-> "begin", tmp |-> PNone, idx |-> 1, sql_statements |-> <<>>,
     result |-> NoResult, given |-> job]

\* both threads are given one config object, or each is given its own copy
ConcInit ==
    /\ CONNECTOR_REGISTRY =
            <<[k |-> "postgres", v |-> "PostgreSQLConnector"],
              [k |-> "iceberg", v |-> "IcebergConnector"]>>
    /\ config \in ConcJobs
    /\ pc = "not_called"
    /\ source_connector = ""
    /\ sink_connector = ""
    /\ idx = 1
    /\ sql_statements = <<>>
    /\ result = NoResult
    /\ given = config
    /\ history = <<>>
    /\ CliIdle
    /\ \E shared \in BOOLEAN :
            /\ objects = (IF shared THEN <<config>> ELSE <<config, config>>)
            /\ threads = <<NewThread(1, config), NewThread(IF shared THEN 1 ELSE 2, config)>>

ConcNext ==
    \/ \E t \in Threads : TBegin(t)
    \/ \E t \in Threads : TTestDatabase(t)
    \/ \E t \in Threads : TCheckName(t)
    \/ \E t \in Threads : TReadDatabase(t)
    \/ \E t \in Threads : TWriteDatabase(t)
    \/ \E t \in Threads : TValidateRest(t)
    \/ \E t \in Threads : TRender(t)
    \/ \E t \in Threads : TReturn(t)

ConcSpec == ConcInit /\ [][ConcNext]_vars

(***************************************************************************)
(* Properties                                                              *)
(***************************************************************************)
Terminal == pc \in {"returned", "raised"}
Kinds == [i \in 1..Len(sql_statements) |-> sql_statements[i].kind]
TableStatements == SelectSeq(sql_statements, LAMBDA st : st.kind = "CREATE TABLE")
SinkStatements == SelectSeq(sql_statements, LAMBDA st : st.kind = "CREATE SINK")
SourceTable(route) == Get(route, <<"source_table">>).s
SinkTable(route) == Get(route, <<"sink_table">>).s
PropCount(stmt, key) == Cardinality({j \in 1..Len(stmt.props) : stmt.props[j].k = key})
PropValue(stmt, key) == stmt.props[CHOOSE j \in 1..Len(stmt.props) : stmt.props[j].k = key].v
Repeat(x, n) == [i \in 1..n |-> x]

\* C1: a call that returns has rendered, in this order, a connection statement
\* iff the source is the variant with connections (iceberg), one source
\* statement, one table statement per route, a connection statement iff the
\* sink is the variant with connections, and one sink statement per route;
\* postgres -> iceberg gives 2n+2 statements; the returned text is their
\* texts joined by newlines.
C1_StatementSequence ==
    pc = "returned" =>
        LET n == Len(routes)
        IN  /\ n >= 1
            /\ Kinds = (IF source_connector = "IcebergConnector"
                        THEN <<"CREATE CONNECTION">> ELSE <<>>)
                       \o <<"CREATE SOURCE">> \o Repeat("CREATE TABLE", n)
                       \o (IF sink_connector = "IcebergConnector"
                           THEN <<"CREATE CONNECTION">> ELSE <<>>)
                       \o Repeat("CREATE SINK", n)
            /\ (source_connector = "PostgreSQLConnector" /\ sink_connector = "IcebergConnector"
                    => Len(sql_statements) = 2 * n + 2)
            /\ result.text = JoinWith([i \in 1..Len(sql_statements) |->
                                            StatementText(sql_statements[i])], "\n")

C1_Witness ==
    /\ pc = "returned"
    /\ Len(routes) = 2
    /\ Len(sql_statements) = 6

\* C2: at every point of a call the table statements rendered so far are
\* those of the first routes, in route order, each bound to its route's
\* source_table, and likewise the sink statements, each built from its
\* route's source_table and sink_table; a call that returns has one of each
\* per route.
C2_RouteOrderPreserved ==
    /\ Len(TableStatements) <= Len(routes)
    /\ Len(SinkStatements) <= Len(routes)
    /\ \A i \in 1..Len(TableStatements) :
            /\ TableStatements[i].upstream = Quoted(Text(SourceTable(routes[i])))
            /\ TableStatements[i].name = Last(SourceTable(routes[i]))
    /\ \A i \in 1..Len(SinkStatements) :
            /\ SinkStatements[i].from = Last(SourceTable(routes[i]))
            /\ SinkStatements[i].name = Last(SinkTable(routes[i])) \o "_sink"
            /\ PropValue(SinkStatements[i], "table.name") = Quoted(Last(SinkTable(routes[i])))
    /\ pc = "returned" =>
            Len(TableStatements) = Len(routes) /\ Len(SinkStatements) = Len(routes)

C2_Witness ==
    /\ pc = "returned"
    /\ routes = <<RouteUsers, RouteOrders>>

\* C3: a call that failed validation (ValueError) has rendered no statement
\* and returns no text, and whenever a statement has been rendered both
\* connectors resolved, both configs validate and every route has
\* source_table and sink_table.
C3_AllOrNothing ==
    /\ (pc = "raised" /\ result.err.exc = "ValueError") =>
            sql_statements = <<>> /\ result.text = ""
    /\ sql_statements # <<>> =>
            /\ Has(source, <<"connector">>) /\ Has(sink, <<"connector">>)
            /\ source_connector # "" /\ sink_connector # ""
            /\ ValidateConfig(source_connector, source).err = NoError
            /\ ValidateConfig(sink_connector, sink).err = NoError
            /\ Len(routes) >= 1
            /\ \A i \in 1..Len(routes) :
                    Has(routes[i], <<"source_table">>) /\ Has(routes[i], <<"sink_table">>)

C3_Witness ==
    /\ pc = "raised"
    /\ idx = 2
    /\ result.err.what = "Route must contain 'sink_table'"
    /\ sql_statements = <<>>

ScenarioARoutes == [has |-> TRUE, list |-> <<RouteOrders>>]
ScenarioAJob == [source |-> PgDatabaseDict, sink |-> IcebergScenarioA, route |-> ScenarioARoutes]
ScenarioARootJob ==
    [source |-> PgDatabaseDict, sink |-> IcebergScenarioARoot, route |-> ScenarioARoutes]

\* the output Scenario A expects
ScenarioAOutput ==
    /\ pc = "returned"
    /\ Len(sql_statements) = 4
    /\ sql_statements[1].kind = "CREATE SOURCE"
    /\ sql_statements[1].name = "postgres_db1_source"
    /\ StatementText(sql_statements[2]) =
            "\nCREATE TABLE orders (*)\nFROM postgres_db1_source\nTABLE 'public.orders';"
    /\ sql_statements[3].kind = "CREATE CONNECTION"
    /\ PropValue(sql_statements[3], "type") = "'iceberg'"
    /\ sql_statements[4].kind = "CREATE SINK"
    /\ sql_statements[4].name = "orders_sink"
    /\ sql_statements[4].from = "orders"
    /\ PropValue(sql_statements[4], "connector") = "'iceberg'"
    /\ PropValue(sql_statements[4], "database.name") = "'lake'"
    /\ PropValue(sql_statements[4], "table.name") = "'orders'"

\* C4 as stated: generate_sql on the Scenario A job, whose sink nests the
\* warehouse block under catalog, returns the four statements of Scenario A.
C4_ScenarioANested ==
    (given = ScenarioAJob /\ Terminal) => ScenarioAOutput

\* C4 amended: the Scenario A job with the warehouse block at the root of the
\* sink config returns the four statements of Scenario A; with the block
\* nested under catalog the call fails on the missing storage configuration
\* and renders nothing.
C4_ScenarioARootWarehouse ==
    /\ (given = ScenarioARootJob /\ Terminal) => ScenarioAOutput
    /\ (given = ScenarioAJob /\ Terminal) =>
            /\ pc = "raised"
            /\ result.err.exc = "ValueError"
            /\ result.err.what = "Missing required configuration: either warehouse path, storage configuration (s3, gcs, azblob), or catalog configuration (rest, jdbc)"
            /\ sql_statements = <<>>

C4_Witness ==
    /\ given = ScenarioARootJob
    /\ pc = "returned"
    /\ PropValue(sql_statements[3], "warehouse.path") = "'s3://bucket'"

ConnectorOf(cfg) == PyStr(Get(cfg, <<"connector">>))
UnknownConnector(cfg) ==
    Has(cfg, <<"connector">>) /\ ConnectorOf(cfg) \notin {"postgres", "iceberg"}
NamesUnsupported(connector_type) ==
    /\ pc = "raised"
    /\ result.err.what = "Unsupported connector type"
    /\ result.err.arg = connector_type
    /\ result.err.supported = <<"postgres", "iceberg">>

\* C5 as stated: whenever the source's or the sink's connector type is not
\* in the registry, the call fails with an error that names that type and
\* lists postgres and iceberg; the registry never changes.
C5_EveryUnknownTypeNamed ==
    /\ (Terminal /\ UnknownConnector(source)) => NamesUnsupported(ConnectorOf(source))
    /\ (Terminal /\ UnknownConnector(sink)) => NamesUnsupported(ConnectorOf(sink))
    /\ RegistryKeys = <<"postgres", "iceberg">>

\* C5 amended: when source and sink both have a connector field and a
\* connector type is not in the registry, the call fails with an error that
\* names the first such type, the source's before the sink's, and lists
\* postgres and iceberg; when one of the two lacks the connector field the
\* call fails on the missing field instead; the registry never changes.
C5_FirstUnknownTypeNamed ==
    /\ (Terminal /\ Has(source, <<"connector">>) /\ Has(sink, <<"connector">>)) =>
            /\ UnknownConnector(source) => NamesUnsupported(ConnectorOf(source))
            /\ (~UnknownConnector(source) /\ UnknownConnector(sink)) =>
                    NamesUnsupported(ConnectorOf(sink))
    /\ (Terminal /\ ~(Has(source, <<"connector">>) /\ Has(sink, <<"connector">>))) =>
            /\ pc = "raised"
            /\ result.err.what =
                    IF ~Has(source, <<"connector">>)
                    THEN "Source configuration must include a 'connector' field"
                    ELSE "Sink configuration must include a 'connector' field"
    /\ CONNECTOR_REGISTRY =
            <<[k |-> "postgres", v |-> "PostgreSQLConnector"],
              [k |-> "iceberg", v |-> "IcebergConnector"]>>

C5_Witness ==
    /\ pc = "raised"
    /\ Has(source, <<"connector">>)
    /\ ConnectorOf(source) = "postgres"
    /\ Has(sink, <<"connector">>)
    /\ ConnectorOf(sink) = "kafka"
    /\ result.err.arg = "kafka"

\* C6: a call on the config object an earlier call returned from returns the
\* very text that call returned.
C6_Determinism ==
    \A i \in 1..Len(history) :
        (Terminal /\ history[i].result.status = "returned") => result = history[i].result

C6_Witness ==
    /\ pc = "returned"
    /\ Len(history) = 1
    /\ history[1].result.status = "returned"
    /\ history[1].given.source = PgDatabaseScalar
    /\ given.source = PgDatabaseDict

\* a flattened key the sink template prints itself or leaves to the connection
TemplateOrConnectionKey(key) == key \in SINK_TEMPLATE_KEYS \/ key[1] \in valid_connection_props

\* C7: in every sink statement, a property key that the flattened sink config
\* and the flattened route both define, and that is no template or connection
\* key, is printed exactly once, with the route's value.
C7_RouteOverride ==
    \A i \in 1..Len(SinkStatements) :
        LET ofSink == Flatten(sink, <<>>)
            ofRoute == Flatten(routes[i], <<>>)
        IN  \A a \in 1..Len(ofSink), b \in 1..Len(ofRoute) :
                (ofSink[a].k = ofRoute[b].k /\ ~TemplateOrConnectionKey(ofRoute[b].k)) =>
                    /\ PropCount(SinkStatements[i], Text(ofRoute[b].k)) = 1
                    /\ PropValue(SinkStatements[i], Text(ofRoute[b].k))
                            = SinkQuoteIfString(ofRoute[b].v)

C7_Witness ==
    /\ pc = "returned"
    /\ sink = IcebergRest
    /\ routes = <<RouteUsers>>
    /\ PropValue(sql_statements[4], "type") = "'append-only'"
    /\ PropValue(sql_statements[4], "opt.x") = "2"

BadRoute(route) == ~Has(route, <<"source_table">>) \/ ~Has(route, <<"sink_table">>)
FirstBadRoute == CHOOSE i \in 1..Len(routes) :
                    BadRoute(routes[i]) /\ \A j \in 1..(i - 1) : ~BadRoute(routes[j])
ConfigsValid ==
    /\ source_connector # ""
    /\ sink_connector # ""
    /\ ValidateConfig(source_connector, source).err = NoError
    /\ ValidateConfig(sink_connector, sink).err = NoError

\* C8: a call on a job whose route list is absent or empty, or holds a route
\* (at any position) without source_table or without sink_table, fails with
\* a ValueError and renders nothing; when both configs validate, the error is
\* the route error: a route is required, or what the first such route lacks.
C8_RouteListValidation ==
    (Terminal /\ (Len(routes) = 0 \/ \E i \in 1..Len(routes) : BadRoute(routes[i]))) =>
        /\ pc = "raised"
        /\ result.err.exc = "ValueError"
        /\ sql_statements = <<>>
        /\ ConfigsValid =>
                result.err.what =
                    IF Len(routes) = 0 THEN "Route configuration is required"
                    ELSE IF ~Has(routes[FirstBadRoute], <<"source_table">>)
                    THEN "Route must contain 'source_table'"
                    ELSE "Route must contain 'sink_table'"

C8_Witness ==
    /\ pc = "raised"
    /\ Len(routes) = 2
    /\ ~BadRoute(routes[1])
    /\ result.err.what = "Route must contain 'source_table'"

\* C9: every route of a call that returned has a non-empty source_table and a
\* non-empty sink_table (a route with an empty one is rejected).
C9_EmptyTableNameRejected ==
    pc = "returned" =>
        \A i \in 1..Len(routes) :
            Text(SourceTable(routes[i])) # "" /\ Text(SinkTable(routes[i])) # ""

\* C10: when the source validates and the iceberg sink config has connector
\* and catalog and also the key database or the key database.name, the call
\* fails with the error that names that key, and renders nothing.
C10_ForbiddenSinkField ==
    ( /\ Terminal
      /\ source_connector # ""
      /\ ValidateConfig(source_connector, source).err = NoError
      /\ sink_connector = "IcebergConnector"
      /\ Has(sink, <<"catalog">>)
      /\ (Has(sink, <<"database">>) \/ Has(sink, <<"database", "name">>)) ) =>
        /\ pc = "raised"
        /\ result.err.exc = "ValueError"
        /\ result.err.what = "Field should not be specified in Iceberg sink config"
        /\ result.err.arg = IF Has(sink, <<"database">>) THEN "database" ELSE "database.name"
        /\ sql_statements = <<>>

C10_Witness ==
    /\ pc = "raised"
    /\ Has(sink, <<"database", "name">>)
    /\ result.err.arg = "database.name"

ConnectionStatements == SelectSeq(sql_statements, LAMBDA st : st.kind = "CREATE CONNECTION")
SinkConnectionName == PyStr(Get(sink, <<"connector">>)) \o "_connection"

\* C11: when the sink's connector supports connections, every sink statement
\* rendered carries exactly one `connection` field, and its value is the
\* shared name <sink.connector>_connection, the name of the connection
\* statement that was rendered for the sink.
C11_SinkCarriesConnection ==
    (sink_connector # "" /\ SupportsConnection(sink_connector)) =>
        \A i \in 1..Len(SinkStatements) :
            /\ PropCount(SinkStatements[i], "connection") = 1
            /\ PropValue(SinkStatements[i], "connection") = SinkConnectionName
            /\ \E j \in 1..Len(ConnectionStatements) :
                    ConnectionStatements[j].name = SinkConnectionName

\* C12: every iceberg sink statement has a `type` field: the value the route
\* or the sink configures, and 'append-only' when neither configures one.
C12_SinkTypeField ==
    sink_connector = "IcebergConnector" =>
        \A i \in 1..Len(SinkStatements) :
            LET route == routes[i]
                configured == IF Has(route, <<"type">>) THEN Get(route, <<"type">>)
                              ELSE IF Has(sink, <<"type">>) THEN Get(sink, <<"type">>)
                              ELSE S1("append-only")
            IN  /\ PropCount(SinkStatements[i], "type") = 1
                /\ PropValue(SinkStatements[i], "type") = Quoted(Text(configured.s))

\* the error the eight checks, taken in the order of the claim, give for a job
ExpectedFirstError(job) ==
    LET src == job.source
        snk == job.sink
        rts == IF job.route.has THEN job.route.list ELSE <<>>
        stype == PyStr(Get(src, <<"connector">>))
        ktype == PyStr(Get(snk, <<"connector">>))
        lacking(r) == ~Has(r, <<"source_table">>) \/ ~Has(r, <<"sink_table">>)
        first == CHOOSE i \in 1..Len(rts) : lacking(rts[i]) /\ \A j \in 1..(i - 1) : ~lacking(rts[j])
    IN  IF ~Has(src, <<"connector">>)
        THEN ValueError("Source configuration must include a 'connector' field", "")
        ELSE IF ~Has(snk, <<"connector">>)
        THEN ValueError("Sink configuration must include a 'connector' field", "")
        ELSE IF ~InRegistry(stype)
        THEN [exc |-> "ValueError", what |-> "Unsupported connector type", arg |-> stype,
              supported |-> <<"postgres", "iceberg">>]
        ELSE IF ~InRegistry(ktype)
        THEN [exc |-> "ValueError", what |-> "Unsupported connector type", arg |-> ktype,
              supported |-> <<"postgres", "iceberg">>]
        ELSE IF ValidateConfig(RegistryClass(stype), src).err # NoError
        THEN ValidateConfig(RegistryClass(stype), src).err
        ELSE IF ValidateConfig(RegistryClass(ktype), snk).err # NoError
        THEN ValidateConfig(RegistryClass(ktype), snk).err
        ELSE IF Len(rts) = 0
        THEN ValueError("Route configuration is required", "")
        ELSE IF \E i \in 1..Len(rts) : lacking(rts[i])
        THEN ValueError(IF ~Has(rts[first], <<"source_table">>)
                        THEN "Route must contain 'source_table'"
                        ELSE "Route must contain 'sink_table'", "")
        ELSE NoError

StepRank(label) ==
    CASE label = "check_source_connector" -> 1
      [] label = "check_sink_connector" -> 2
      [] label = "resolve_source" -> 3
      [] label = "resolve_sink" -> 4
      [] label = "validate_source" -> 5
      [] label = "validate_sink" -> 6
      [] label = "check_routes" -> 7
      [] label = "validate_routes" -> 8
      [] label = "source_connection" -> 9
      [] label = "create_source" -> 10
      [] label = "create_tables" -> 11
      [] label = "sink_connection" -> 12
      [] label = "create_sinks" -> 13
      [] label = "return" -> 14
      [] OTHER -> 15

\* the outcome of a finished call is the one the first failing check gives
FirstFailureReported ==
    Terminal =>
        IF ExpectedFirstError(given) # NoError
        THEN pc = "raised" /\ result.err = ExpectedFirstError(given)
        ELSE pc = "returned" \/ result.err.exc # "ValueError"

\* within a call a step only moves forward: to a later step, or to the next
\* route of the loop it is in
StepsMoveForward ==
    \/ StepRank(pc') > StepRank(pc)
    \/ pc' = pc /\ pc \in {"validate_routes", "create_tables", "create_sinks"} /\ idx' = idx + 1
    \/ Terminal /\ pc' = "check_source_connector"

\* C15: the checks of a call run in the order (1) source has connector,
\* (2) sink has connector, (3) source connector resolves, (4) sink connector
\* resolves, (5) source validate_config, (6) sink validate_config, (7) route
\* list non-empty, (8) each route in input order; no step is revisited, and
\* the error of a failed call is that of the first check that fails.
C15_FixedCheckOrder == [] FirstFailureReported /\ [][StepsMoveForward]_vars

C15_Witness ==
    /\ pc = "raised"
    /\ ~Has(given.source, <<"database">>)
    /\ result.err.what = "Unsupported connector type"
    /\ result.err.arg = "kafka"

\* the other case the claim names: an invalid sink config and no route
C15_WitnessSinkBeforeRoutes ==
    /\ pc = "raised"
    /\ Len(routes) = 0
    /\ result.err.what = "Field should not be specified in Iceberg sink config"

\* a step in which validate_config raises (generator.py:113-114)
ValidateConfigRaises == pc \in {"validate_source", "validate_sink"} /\ pc' = "raised"

\* C17: whenever validate_config raises, for the postgres or the iceberg
\* variant and whatever rule is violated, the configuration is exactly what
\* it was before the call of validate_config.
C17_FailedValidationLeavesConfig == [][ValidateConfigRaises => config' = config]_vars

SourceStatements == SelectSeq(sql_statements, LAMBDA st : st.kind = "CREATE SOURCE")

\* the call is past a validate_config of the postgres source that did not raise
PostgresSourceValidated ==
    /\ source_connector = "PostgreSQLConnector"
    /\ (StepRank(pc) \in 6..14 \/ pc = "returned")

\* database as validate_config leaves it, and the names rendered from it
DatabaseNormalized ==
    PostgresSourceValidated =>
        LET before == Get(given.source, <<"database">>)
            after == Get(source, <<"database">>)
            expected == "postgres_" \o PyStr(Get(after.d, <<"name">>)) \o "_source"
        IN  /\ IsDict(after)
            /\ Has(after.d, <<"name">>)
            /\ after = (IF IsDict(before) THEN before ELSE PDict(<<E("name", before)>>))
            /\ \A i \in 1..Len(SourceStatements) : SourceStatements[i].name = expected
            /\ \A i \in 1..Len(TableStatements) : TableStatements[i].from = expected

\* validate_config of a postgres source whose database is a mapping without name
DatabaseWithoutNameRejected ==
    ( /\ pc = "validate_source"
      /\ source_connector = "PostgreSQLConnector"
      /\ FirstMissing(source, PG_REQUIRED_FIELDS) = 0
      /\ IsDict(Get(source, <<"database">>))
      /\ ~Has(Get(source, <<"database">>).d, <<"name">>) ) =>
        /\ pc' = "raised"
        /\ result'.err.what = "Database configuration must have a 'name' field"

\* C18: once validate_config of the postgres source has passed, database is a
\* mapping with a name: a scalar s has become {name: s}, a mapping with a
\* name is as it was, and a mapping without a name is rejected; the source
\* statement and every table statement name the source
\* postgres_<database.name>_source.
C18_DatabaseNormalized == [] DatabaseNormalized /\ [][DatabaseWithoutNameRejected]_vars

C18_Witness ==
    /\ pc = "returned"
    /\ ~IsDict(Get(given.source, <<"database">>))
    /\ Len(TableStatements) = 2
    /\ TableStatements[2].from = "postgres_db1_source"

\* the source config is as the caller gave it, or differs only by a scalar
\* database promoted to {name: <scalar>}
SourceAtMostPromoted ==
    \/ config.source = given.source
    \/ /\ Has(given.source, <<"database">>)
       /\ ~IsDict(Get(given.source, <<"database">>))
       /\ config.source = Put(given.source, <<"database">>,
                              PDict(<<E("name", Get(given.source, <<"database">>))>>))

\* the caller's config against the config the call received
FrameOfGenerateSql ==
    /\ config.sink = given.sink
    /\ ~Has(config.sink, <<"connection_name">>)
    /\ ~Has(config.sink, <<"connection">>)
    /\ config.route = given.route
    /\ SourceAtMostPromoted

\* a step that renders statements leaves the config alone
RenderingLeavesConfig == StepRank(pc) \in 9..14 => config' = config

\* C19: generate_sql leaves the caller's sink config and every route as they
\* were (the sink config gains no connection_name and no connection key) and
\* changes the source config at most by promoting a scalar database to
\* {name: <scalar>}; the rendering steps never change the config.
C19_FrameOfGenerateSql == [] FrameOfGenerateSql /\ [][RenderingLeavesConfig]_vars

\* the frame of C19 for the calls whose sink is not the postgres connector
FrameWithIcebergSink == sink_connector # "PostgreSQLConnector" => FrameOfGenerateSql

CONNECTION_KEYS == {"catalog", "s3", "gcs", "azblob", "warehouse"}
STRUCTURAL_KEYS ==
    {"connector", "database.name", "table.name", "source_table", "sink_table", "connection"}

\* the part of a printed key before its first "."
FirstSegment(text) ==
    LET dots == {i \in 1..Len(text) : SubSeq(text, i, i) = "."}
    IN  IF dots = {} THEN text
        ELSE SubSeq(text, 1, (CHOOSE i \in dots : \A j \in dots : i <= j) - 1)

\* the flattened properties of the sink config under a connection key, as printed
ConnectionProperties ==
    UNION { {Prop(Text(l.k), ConnQuoteIfString(l.v)) : l \in {Flatten(<<sink[e]>>, <<>>)[n] :
                                                n \in 1..Len(Flatten(<<sink[e]>>, <<>>))}} :
            e \in {x \in 1..Len(sink) : Len(sink[x].k) = 1 /\ sink[x].k[1] \in CONNECTION_KEYS} }

\* C20: with a postgres source and an iceberg sink, the connection statement
\* has, after its fixed type field, exactly the flattened properties of the
\* sink config whose top-level key is catalog, s3, gcs, azblob or warehouse;
\* and no sink statement has, after its fixed fields, a property whose
\* top-level key is one of those five or whose key is connector,
\* database.name, table.name, source_table, sink_table or connection.
C20_PropertiesPartitioned ==
    (source_connector = "PostgreSQLConnector" /\ sink_connector = "IcebergConnector") =>
        /\ \A i \in 1..Len(ConnectionStatements) :
                LET props == ConnectionStatements[i].props
                IN  /\ props[1] = Prop("type", "'iceberg'")
                    /\ {props[j] : j \in 2..Len(props)} = ConnectionProperties
                    /\ Len(props) = 1 + Cardinality(ConnectionProperties)
        /\ \A i \in 1..Len(SinkStatements) :
                LET props == SinkStatements[i].props
                IN  \A j \in 4..Len(props) :
                        /\ FirstSegment(props[j].k) \notin CONNECTION_KEYS
                        /\ props[j].k \notin STRUCTURAL_KEYS

C20_Witness ==
    /\ pc = "returned"
    /\ Len(ConnectionStatements) = 1
    /\ PropCount(ConnectionStatements[1], "catalog.rest.credential") = 1
    /\ Len(SinkStatements) = 2
    /\ PropCount(SinkStatements[2], "commit_checkpoint_interval") = 1
    /\ PropCount(SinkStatements[2], "catalog.rest.credential") = 0

IsPrefix(s, t) == Len(s) <= Len(t) /\ s = SubSeq(t, 1, Len(s))
NonBlank(list) == SelectSeq(list, LAMBDA st : ~IsBlank(st))
HasChar(text, c) == \E i \in 1..Len(text) : SubSeq(text, i, i) = c

\* in the loop of submit_sql: the list of the loop is the output cut at every
\* ";", and what the database has executed is a prefix of its non-blank items
ExecutedInOutputOrder ==
    (main_pc = "execute" \/ (main_pc = "exited" /\ submit_calls = 1 /\ statements # <<>>)) =>
        /\ JoinWith(statements, ";") = sql
        /\ sql = result.text
        /\ \A i \in 1..Len(statements) : ~HasChar(statements[i], ";")
        /\ IsPrefix(executed, NonBlank(statements))
        /\ (exit_status = 0 => executed = NonBlank(statements))

\* statements are executed one at a time and none is taken back; after a
\* failure was reported nothing more is executed
ExecutionIsFinal ==
    /\ IsPrefix(executed, executed')
    /\ Len(executed') <= Len(executed) + 1
    /\ (stderr # <<>> => executed' = executed)

\* C13: submit_sql executes the non-blank statements obtained by splitting
\* the output on ";", one at a time and in output order; once a statement
\* fails no later statement is executed, and the statements executed before
\* the failure stay executed.
C13_SequentialExecution == [] ExecutedInOutputOrder /\ [][ExecutionIsFinal]_vars

C13_Witness ==
    /\ main_pc = "exited"
    /\ exit_status = 1
    /\ Len(NonBlank(statements)) = 6
    /\ Len(executed) = 2

\* C14: when generate_sql fails with a core error, the tool catches it,
\* writes a diagnostic of a single line to the error stream and exits with a
\* non-zero status, and submit_sql is not called in that run.
C14_CliFailurePath ==
    (main_pc = "exited" /\ pc = "raised" /\ result.err.exc = "ValueError") =>
        /\ Len(stderr) = 1
        /\ exit_status # 0
        /\ submit_calls = 0

\* what one call of generate_sql, run alone, gives for a job from a postgres
\* source to an iceberg sink
AloneResult(job) ==
    IF ExpectedFirstError(job) # NoError THEN Raised(ExpectedFirstError(job))
    ELSE LET src == PostgreSQLValidateConfig(job.source).config
             rts == job.route.list
             connector == Get(job.sink, <<"connector">>).s
             with_conn == Put(job.sink, <<"connection_name">>,
                              PStr(Front(connector) \o <<Last(connector) \o "_connection">>))
             stmts == <<PostgreSQLCreateSource(src)>>
                      \o [i \in 1..Len(rts) |-> PostgreSQLCreateTable(src, rts[i])]
                      \o <<IcebergCreateConnection(job.sink, Text(connector) \o "_connection")>>
                      \o [i \in 1..Len(rts) |-> IcebergCreateSink(src, with_conn, rts[i], PNone)]
         IN  Returned(JoinWith([i \in 1..Len(stmts) |-> StatementText(stmts[i])], "\n"))

\* the single call of Spec agrees with AloneResult
AloneResultIsTheCall ==
    (Terminal /\ Len(history) = 0 /\ source_connector \in {"", "PostgreSQLConnector"}
        /\ sink_connector \in {"", "IcebergConnector"}) => result = AloneResult(given)

ThreadDone(t) == threads[t].pc \in {"returned", "raised"}
ScalarDatabase(job) ==
    FirstMissing(job.source, PG_REQUIRED_FIELDS) = 0 /\ ~IsDict(Get(job.source, <<"database">>))

\* every thread that is done has the result of a call run alone, and once both
\* are done a scalar database d has become {name: d} in every config object
ThreadsAsAlone ==
    threads # <<>> =>
        /\ \A t \in Threads : ThreadDone(t) => threads[t].result = AloneResult(threads[t].given)
        /\ ((\A t \in Threads : ThreadDone(t)) /\ ScalarDatabase(given)) =>
                \A o \in 1..Len(objects) :
                    Get(objects[o].source, <<"database">>)
                        = PDict(<<E("name", Get(given.source, <<"database">>))>>)

\* C16: in every interleaving of two calls of generate_sql, the two given one
\* config object with a scalar database d included, each call returns what it
\* returns when run alone, and the config ends with database = {name: d},
\* never {name: {name: d}}.
C16_ConcurrentGeneration == ThreadsAsAlone

\* the threads do not share a config object whose database is a scalar
NoSharedScalar == threads # <<>> /\ (Len(objects) = 2 \/ ~ScalarDatabase(given))

\* the statement of C16 for threads that each have their own config object, or
\* share one whose database is a mapping already
ThreadsAsAloneUnshared == NoSharedScalar => ThreadsAsAlone

\* the rest block of the sink's catalog (empty when there is none)
RestBlock ==
    IF Has(sink, <<"catalog">>) /\ IsDict(Get(sink, <<"catalog">>))
       /\ Has(Get(sink, <<"catalog">>).d, <<"rest">>)
       /\ IsDict(Get(Get(sink, <<"catalog">>).d, <<"rest">>))
    THEN Get(Get(sink, <<"catalog">>).d, <<"rest">>).d
    ELSE <<>>
PROMOTED_REST_FIELDS == {"oauth2_server_uri", "scope"}

\* C21: in the connection statement of an iceberg sink, the fields
\* oauth2_server_uri and scope of catalog.rest are printed under
\* catalog.oauth2_server_uri and catalog.scope and not under catalog.rest.*,
\* and every other field of catalog.rest is printed under catalog.rest.<field>.
C21_RestFieldsPromoted ==
    (source_connector = "PostgreSQLConnector" /\ sink_connector = "IcebergConnector") =>
        \A i \in 1..Len(ConnectionStatements) :
            \A j \in 1..Len(RestBlock) :
                LET field == Text(RestBlock[j].k)
                    stmt == ConnectionStatements[i]
                IN  IF field \in PROMOTED_REST_FIELDS
                    THEN /\ PropCount(stmt, "catalog." \o field) = 1
                         /\ PropCount(stmt, "catalog.rest." \o field) = 0
                    ELSE PropCount(stmt, "catalog.rest." \o field) = 1

\* a value rendered the one way: a string in quotes, a boolean as 'true' or
\* 'false', any other scalar bare
UniformValue(v) ==
    IF IsStr(v) THEN Quoted(Text(v.s))
    ELSE IF v.t = "bool" THEN (IF v.b THEN "'true'" ELSE "'false'")
    ELSE PyStr(v)

LeavesOf(d) == {Flatten(d, <<>>)[n] : n \in 1..Len(Flatten(d, <<>>))}

\* every property of stmt that prints a leaf of d prints its value the one way
RendersUniformly(stmt, d) ==
    \A l \in LeavesOf(d) :
        PropCount(stmt, Text(l.k)) = 1 => PropValue(stmt, Text(l.k)) = UniformValue(l.v)

\* C22: in the source statement, the connection statement and the sink
\* statements every property that prints a config value prints a string in
\* single quotes, a boolean as 'true' or 'false', and any other scalar bare.
C22_UniformValueRendering ==
    (source_connector = "PostgreSQLConnector" /\ sink_connector = "IcebergConnector") =>
        /\ \A i \in 1..Len(SourceStatements) :
                RendersUniformly(SourceStatements[i], SelectSeq(source, LAMBDA e : e.k # <<"connector">>))
        /\ \A i \in 1..Len(ConnectionStatements) :
                RendersUniformly(ConnectionStatements[i],
                                 SelectSeq(sink, LAMBDA e : Len(e.k) = 1 /\ e.k[1] \in CONNECTION_KEYS))
        /\ \A i \in 1..Len(SinkStatements) :
                RendersUniformly(SinkStatements[i],
                                 SelectSeq(routes[i], LAMBDA e : e.k \notin {<<"source_table">>, <<"sink_table">>}))

\* the renderings of C22 that differ in the code: a boolean in the connection
\* statement, a boolean and a number in the source statement
C22_ConnectionBoolean ==
    \A i \in 1..Len(ConnectionStatements) :
        PropCount(ConnectionStatements[i], "catalog.ssl") = 0
        \/ PropValue(ConnectionStatements[i], "catalog.ssl") = "'true'"
C22_SourceBoolean ==
    \A i \in 1..Len(SourceStatements) :
        PropCount(SourceStatements[i], "publication.create.enable") = 0
        \/ PropValue(SourceStatements[i], "publication.create.enable") = "'true'"

\* the value at a path of keys in the source config, Undefined when a key on the way is absent
RECURSIVE AtPath(_, _)
AtPath(v, path) ==
    IF Len(path) = 0 THEN v
    ELSE IF v.t = "dict" /\ Has(v.d, <<Head(path)>>) THEN AtPath(Get(v.d, <<Head(path)>>), Tail(path))
    ELSE Undefined

OPTIONAL_CLAUSES ==
    {<<"slot", "name">>, <<"publication", "name">>, <<"publication", "create", "enable">>,
     <<"schema", "name">>}

\* C23: the source statement of a validated postgres source has the clause
\* slot.name, publication.name, publication.create.enable, schema.name if and
\* only if that key is present in the source config, whatever its value
\* (publication.create.enable: false still gives the clause).
C23_OptionalClauseIffPresent ==
    source_connector = "PostgreSQLConnector" =>
        \A i \in 1..Len(SourceStatements) :
            \A path \in OPTIONAL_CLAUSES :
                PropCount(SourceStatements[i], Text(path)) =
                    (IF AtPath(PDict(source), path) # Undefined THEN 1 ELSE 0)

\* the part of a text after its last "." (all of it when there is none), and
\* a quoted value without its two quotes
AfterLastDot(text) ==
    LET dots == {i \in 1..Len(text) : SubSeq(text, i, i) = "."}
    IN  IF dots = {} THEN text
        ELSE SubSeq(text, (CHOOSE i \in dots : \A j \in dots : j <= i) + 1, Len(text))
Unquoted(val) == SubSeq(val, 2, Len(val) - 1)

\* C24: for every route whose sink_table has a dot, the sink statement's
\* database.name is what precedes the last dot and its table.name what follows
\* it (database.name, ".", table.name together give sink_table, also for
\* db.schema.table); the sink is named <table.name>_sink and reads FROM the
\* last segment of source_table.
C24_SinkNaming ==
    sink_connector = "IcebergConnector" =>
        \A i \in 1..Len(SinkStatements) :
            LET stmt == SinkStatements[i]
                sink_table == Text(SinkTable(routes[i]))
                database_name == Unquoted(PropValue(stmt, "database.name"))
                table_name == Unquoted(PropValue(stmt, "table.name"))
            IN  HasChar(sink_table, ".") =>
                    /\ PropValue(stmt, "database.name") = Quoted(database_name)
                    /\ PropValue(stmt, "table.name") = Quoted(table_name)
                    /\ database_name \o "." \o table_name = sink_table
                    /\ table_name = AfterLastDot(sink_table)
                    /\ stmt.name = table_name \o "_sink"
                    /\ stmt.from = AfterLastDot(Text(SourceTable(routes[i])))

C24_Witness ==
    /\ pc = "returned"
    /\ Len(SinkStatements) = 2
    /\ Text(SinkTable(routes[2])) = "db.lake.users"
    /\ PropValue(SinkStatements[2], "database.name") = "'db.lake'"
    /\ SinkStatements[2].name = "users_sink"

S3_FIELDS == <<"endpoint", "region", "access", "secret">>

\* the sink config has an s3 block and passes every check made before the
\* check of that block (iceberg.py lines 238-274)
ReachesS3Check(cfg) ==
    /\ Has(cfg, <<"connector">>)
    /\ Has(cfg, <<"catalog">>)
    /\ ~Has(cfg, <<"database">>)
    /\ ~Has(cfg, <<"database", "name">>)
    /\ IsDict(Get(cfg, <<"catalog">>))
    /\ Has(cfg, <<"warehouse">>) =>
            IsDict(Get(cfg, <<"warehouse">>)) /\ Has(Get(cfg, <<"warehouse">>).d, <<"path">>)
    /\ Has(cfg, <<"s3">>)
    /\ IsDict(Get(cfg, <<"s3">>))

AnotherStorageBlock(cfg) ==
    \/ Has(cfg, <<"warehouse">>)
    \/ Has(Get(cfg, <<"catalog">>).d, <<"rest">>)
    \/ Has(Get(cfg, <<"catalog">>).d, <<"jdbc">>)

C25_WitnessAccepted ==
    /\ pc = "returned"
    /\ ReachesS3Check(sink)
    /\ PropCount(ConnectionStatements[1], "s3.access.key") = 1

\* the leaves of d whose flattened key prints as `text`, in order
LeavesPrintedAs(d, text) == SelectSeq(Flatten(d, <<>>), LAMBDA l : Text(l.k) = text)

\* keys validate_config of neither connector looks at, and values for them
UNKNOWN_KEYS == {<<"comment">>, <<"x", "y">>}
UnknownValues == {S1("v"), PInt(7), PBool(FALSE), PDict(<<E("a", S1("b"))>>)}

\* an entry with a key no check names changes neither what validate_config
\* says nor the source and table statements
UnknownKeyIgnored ==
    \A key \in UNKNOWN_KEYS, v \in UnknownValues :
        /\ source_connector # "" =>
                ValidateConfig(source_connector, Append(source, [k |-> key, v |-> v])).err
                    = ValidateConfig(source_connector, source).err
        /\ sink_connector # "" =>
                ValidateConfig(sink_connector, Append(sink, [k |-> key, v |-> v])).err
                    = ValidateConfig(sink_connector, sink).err
        /\ \A i \in 1..Len(SourceStatements) :
                PostgreSQLCreateSource(Append(source, [k |-> key, v |-> v])) = SourceStatements[i]
        /\ \A i \in 1..Len(routes) :
                ValidateRoute(Append(routes[i], [k |-> key, v |-> v])) = ValidateRoute(routes[i])

C27_ReferentialIntegrity ==
    \A i \in 1..Len(sql_statements) :
        LET st == sql_statements[i]
        IN  /\ st.kind = "CREATE TABLE" =>
                \E j \in 1..(i - 1) : /\ sql_statements[j].kind = "CREATE SOURCE"
                                      /\ sql_statements[j].name = st.from
            /\ st.kind = "CREATE SINK" =>
                \E j \in 1..(i - 1) : /\ sql_statements[j].kind = "CREATE TABLE"
                                      /\ sql_statements[j].name = st.from

C27_Witness ==
    /\ pc = "returned"
    /\ Len(TableStatements) = 2
    /\ Len(SinkStatements) = 2
    /\ TableStatements[1].name # TableStatements[2].name
    /\ SinkStatements[2].from = TableStatements[2].name
    /\ TableStatements[2].from = SourceStatements[1].name

PairwiseDistinct(seq) == \A i, j \in 1..Len(seq) : i # j => seq[i] # seq[j]
SourceTables == [i \in 1..Len(routes) |-> Text(SourceTable(routes[i]))]
SinkTables == [i \in 1..Len(routes) |-> Text(SinkTable(routes[i]))]
NamesOf(list) == [i \in 1..Len(list) |-> list[i].name]

\* C28: when a call returns for routes with pairwise distinct
\* source_table values and pairwise distinct sink_table values, the table
\* statements create pairwise distinct names and so do the sink statements.
C28_UniqueNames ==
    (pc = "returned" /\ PairwiseDistinct(SourceTables) /\ PairwiseDistinct(SinkTables)) =>
        /\ PairwiseDistinct(NamesOf(TableStatements))
        /\ PairwiseDistinct(NamesOf(SinkStatements))

\* the names collide only through the last segments: routes whose
\* source_table values have pairwise distinct last segments, and whose
\* sink_table values have, get pairwise distinct table and sink names
NamesDistinctForDistinctLastSegments ==
    ( /\ pc = "returned"
      /\ PairwiseDistinct([i \in 1..Len(routes) |-> AfterLastDot(SourceTables[i])])
      /\ PairwiseDistinct([i \in 1..Len(routes) |-> AfterLastDot(SinkTables[i])]) ) =>
        /\ PairwiseDistinct(NamesOf(TableStatements))
        /\ PairwiseDistinct(NamesOf(SinkStatements))

\* the output cut the way submit_sql cuts it: at every ";", blank items dropped
Pieces == NonBlank(Split(result.text, ";"))
\* statement i as it stands in the output, after the newline that joins it
EmittedText(i) == (IF i = 1 THEN "" ELSE "\n") \o StatementText(sql_statements[i])
EmittedAsPieces ==
    /\ Len(Pieces) = Len(sql_statements)
    /\ \A i \in 1..Len(sql_statements) : Pieces[i] \o ";" = EmittedText(i)

\* C29: for every call that returns, cutting the output at every ";" and
\* dropping the blank pieces gives the statements rendered, one piece per
\* statement in their order, whatever characters the values of the config
\* contain.
C29_RoundTrip == pc = "returned" => EmittedAsPieces

\* the pieces are the statements whenever no statement has a ";" before its last character
RoundTripWithoutSemicolon ==
    ( /\ pc = "returned"
      /\ \A i \in 1..Len(sql_statements) :
            LET text == StatementText(sql_statements[i])
            IN  ~HasChar(SubSeq(text, 1, Len(text) - 1), ";") ) => EmittedAsPieces

\* the roles the registered classes can play: create_source and create_table
\* are methods of the postgres class only, create_sink of the iceberg class only
WrongRole ==
    \/ source_connector = "IcebergConnector"
    \/ sink_connector = "PostgreSQLConnector"

\* a call on a job with a connector in the wrong role ends in a core error
\* with nothing rendered
WrongRoleRejected ==
    /\ (Terminal /\ WrongRole) => (pc = "raised" /\ result.err.exc = "ValueError")
    /\ WrongRole => sql_statements = <<>>

\* C30: a call of generate_sql ends by returning the text or by raising one
\* of the core errors (all of them ValueError in the code), and a job whose
\* source connector is a sink-only class or whose sink connector is a
\* source-only class is rejected with a core error before any statement is
\* rendered.
C30_ReturnsOrCoreError ==
    /\ Terminal => (pc = "returned" \/ (pc = "raised" /\ result.err.exc = "ValueError"))
    /\ WrongRoleRejected

\* the outcomes of the calls with both connectors in their role
RightRoleReturnsOrCoreError ==
    (Terminal /\ ~WrongRole) =>
        (pc = "returned" \/ (pc = "raised" /\ result.err.exc = "ValueError"))

====
